---------------------------- MODULE Spec2Model ----------------------------
(***************************************************************************)
(* Model of the asset library engine of tpQtLib:                           *)
(*   - the metadata store (LibraryUtils.read / LibraryUtils.write and the  *)
(*     module-level copies in widgets/library/utils.py), step by step,     *)
(*     with process crashes and failing filesystem calls;                  *)
(*   - the Library dirty tracking, read, save and sync;                    *)
(*   - the directory crawl LibraryManager.find_items (both copies).        *)
(* Python 2 semantics throughout (the code uses `unicode`, dict.keys()     *)
(* returning a list).                                                      *)
(***************************************************************************)
EXTENDS Integers, Sequences, FiniteSets, TLC

(***************************************************************************)
(* Bounds of the model.                                                    *)
(***************************************************************************)
\* Number of tokens in a file content written by write().
ContentLen == 2
\* Number of nodes below the root of the directory tree.
MaxNodes == 5
\* Largest depth argument given to find_items.
MaxDepthArg == 3
\* Last tick of the filesystem clock.
MaxTime == 2
\* Nodes of the tree that the sync specification populates, and the largest
\* number of entries of the documents it starts from.
SyncNodes == 3
MaxKeys == 2

\* longest list of queries given to match(), longest list of filters of a
\* query
MaxQueries == 2
MaxFilters == 2

\* longest list of items given to sorted() and group_items(), longest
\* sort_by list
MaxItems == 3
MaxSortBy == 2

(***************************************************************************)
(* Program constants.                                                      *)
(***************************************************************************)
\* LibraryConsts.DEFAULT_RECURSIVE_DEPTH, returned by recursive_depth()
DEFAULT_RECURSIVE_DEPTH == 4
\* Library._path when no root is configured (None or '': `not self.path()`)
NoPath == ""
\* Python's None, as the value of Library._mtime and of Library.mtime();
\* the ticks of the clock are 1..MaxTime
None == 0

(***************************************************************************)
(* File contents.  A content is a sequence of tokens; the token "../" is   *)
(* the relative path fragment that read() rewrites, "k" is any other text. *)
(***************************************************************************)
Tokens == {"k", "../"}

RECURSIVE SeqsOfLen(_, _)
SeqsOfLen(S, n) ==
    IF n = 0 THEN {<<>>}
    ELSE {Append(s, t) : s \in SeqsOfLen(S, n - 1), t \in S}

\* The contents a caller may pass to write(): non-empty, ContentLen tokens.
Contents == SeqsOfLen(Tokens, ContentLen)

\* A file of the filesystem: absent, or present with a content.
NoFile == [exists |-> FALSE, content |-> <<>>]
File(c) == [exists |-> TRUE, content |-> c]

VARIABLES
    \* ---- the filesystem next to the data file (core/library.py:225-230)
    fs,         \* [path, tmp, bak: files; dirname: whether the directory exists]
    \* ---- the running write() call
    pc,         \* position of the write() call in its body, "idle" if none
    data,       \* the content passed to the running write()
    prev,       \* the canonical file as it was when the running write() began
    \* ---- what the caller observed
    op,         \* outcome of the last finished call of the store
    rd,         \* value returned by the last read()
    crashPc,    \* position at which the last write() was interrupted, or "none"
    \* ---- the directory tree below the library root and the item registry
    kind,       \* kind[n]: "absent", "file" or "dir", for every node n
    cls,        \* cls[n]: what item_from_path resolves n's path to
    _item_classes,  \* LibraryManager._item_classes, in the OrderedDict's order
    ignore_paths,   \* what the manager's get_ignore_paths() returns
    \* ---- a running LibraryManager.find_items generator
    depth,      \* its depth argument
    mgr,        \* which copy of find_items runs: "widgets" or "core"
    walk,       \* the generator's state
    \* ---- a Library with a root configured (library.py:465-485)
    _mtime,     \* Library._mtime: None or the recorded mtime of the data file
    _data,      \* Library._data: the cached document
    _items,     \* Library._items: the paths of the materialized items
    fmtime,     \* os.path.getmtime of the data file, when it exists
    now,        \* the filesystem clock, in mtime ticks
    lop,        \* the last call of the Library and how it ended
    reloaded,   \* whether the last Library.read() called read_json
    pre,        \* the document the last sync() or save_item_data() started from
    crawled,    \* the paths of the items it merged into the document
    _path,      \* Library._path: the root, or NoPath
    _results,   \* Library._results: the paths of the items of the last search
    _search_enabled,    \* Library._search_enabled
    \* ---- a call of one of the static functions of Library / LibraryUtils
    fn,         \* the function called, "none" before the call
    arg,        \* its arguments
    ret,        \* what it returned, or how it ended
    \* ---- calls that run step by step next to the ones above
    run,        \* a running Library.sync(): its position, index and events
    other       \* the processes inside LibraryUtils.write on one path, when two race

storeVars == <<fs, pc, data, prev, op, rd, crashPc>>
treeVars == <<kind, cls, _item_classes, ignore_paths>>
crawlVars == <<depth, mgr, walk>>
libVars == <<_mtime, _data, _items, fmtime, now, lop, reloaded, pre, crawled,
             _path, _results, _search_enabled>>

callVars == <<fn, arg, ret>>

runVars == <<run, other>>

vars == <<storeVars, treeVars, runVars, crawlVars, libVars, callVars>>

(***************************************************************************)
(* LibraryUtils.absolute_path: data.replace('../../../', rel_path3), then  *)
(* '../../' -> rel_path2, then '../' -> rel_path1.  str.replace scans from *)
(* the left and replaces non-overlapping occurrences.  rel_path1..3 are    *)
(* the directory of the data file and its two ancestors, each ending in    *)
(* "/"; they are the tokens "D1/", "D2/", "D3/".                           *)
(***************************************************************************)
RECURSIVE ReplaceRun(_, _, _)
ReplaceRun(s, n, tok) ==
    IF Len(s) < n THEN s
    ELSE IF \A i \in 1..n : s[i] = "../"
         THEN <<tok>> \o ReplaceRun(SubSeq(s, n + 1, Len(s)), n, tok)
         ELSE <<s[1]>> \o ReplaceRun(Tail(s), n, tok)

absolute_path(d) ==
    ReplaceRun(ReplaceRun(ReplaceRun(d, 3, "D3/"), 2, "D2/"), 1, "D1/")

\* LibraryUtils.read: '' if the path is not a file, else its content; then
\* absolute_path.
read(f) == absolute_path(IF f.exists THEN f.content ELSE <<>>)

(***************************************************************************)
(* The filesystem steps of LibraryUtils.write, as functions of the         *)
(* filesystem.  os.rename replaces its destination atomically.             *)
(***************************************************************************)
\* 228-230: if not os.path.exists(dirname): os.makedirs(dirname)
MakeDirs(f) == [f EXCEPT !.dirname = TRUE]

\* (mutant of IsLocked: the lock check looks at the .bak instead of the .tmp)
IsLocked_Bak(f) == f.bak.exists

\* 232: if os.path.exists(tmp): raise IOError(...)
IsLocked(f) == f.tmp.exists

\* 237: open(tmp, 'w') creates the file empty
OpenTmp(f) == [f EXCEPT !.tmp = File(<<>>)]

\* 238-239: f.write(data); f.flush() -- one token reaches the file at a time
WriteTmp(f, t) == [f EXCEPT !.tmp = File(Append(f.tmp.content, t))]

\* 241-242: if os.path.exists(bak): os.remove(bak)
RemoveOldBak(f) == IF f.bak.exists THEN [f EXCEPT !.bak = NoFile] ELSE f

\* (mutant of RenamePathToBak: the old file is removed, not kept as .bak)
RenamePathToBak_Remove(f) ==
    IF f.path.exists THEN [f EXCEPT !.path = NoFile] ELSE f

\* 243-244: if os.path.exists(path): os.rename(path, bak)
RenamePathToBak(f) ==
    IF f.path.exists THEN [f EXCEPT !.bak = f.path, !.path = NoFile] ELSE f

\* 245-246: if os.path.exists(tmp): os.rename(tmp, path)
RenameTmpToPath(f) ==
    IF f.tmp.exists THEN [f EXCEPT !.path = f.tmp, !.tmp = NoFile] ELSE f

\* 247-248: if os.path.exists(path) and os.path.exists(bak): os.remove(bak)
RemoveBak(f) ==
    IF f.path.exists /\ f.bak.exists THEN [f EXCEPT !.bak = NoFile] ELSE f

\* 250-251 (except): if os.path.exists(tmp): os.remove(tmp)
ExceptRemoveTmp(f) == IF f.tmp.exists THEN [f EXCEPT !.tmp = NoFile] ELSE f

\* (mutant of ExceptRestoreBak: the handler leaves the .bak where it is)
ExceptRestoreBak_Skip(f) == f

\* 252-253 (except): if not exists(path) and exists(bak): os.rename(bak, path)
ExceptRestoreBak(f) ==
    IF ~f.path.exists /\ f.bak.exists
    THEN [f EXCEPT !.path = f.bak, !.bak = NoFile] ELSE f

\* The positions of the try body, in order, and of the except handler.
BodyPcs == {"open_tmp", "write_tmp", "rm_old_bak", "mv_path_bak",
            "mv_tmp_path", "rm_bak"}
ExceptPcs == {"exc_rm_tmp", "exc_mv_bak"}

(***************************************************************************)
(* The directory tree.  Node 0 is the root given to find_items; nodes      *)
(* 1..MaxNodes lie below it: 1 and 2 in the root, node n >= 3 in node      *)
(* n - 2.  A path is the sequence of nodes from the root; its length is    *)
(* its depth below the root.  os.walk lists a directory in a fixed order.  *)
(***************************************************************************)
\* longest path of a directory that the model lets os.walk list
MaxWalkLen == 5

Nodes == 1..MaxNodes

Children(n) ==
    IF n = 0 THEN [i \in 1..(IF MaxNodes < 2 THEN MaxNodes ELSE 2) |-> i]
    ELSE IF n + 2 <= MaxNodes /\ n >= 1 THEN <<n + 2>>
    ELSE <<>>

Parent(n) == IF n <= 2 THEN 0 ELSE n - 2

RECURSIVE PathOf(_)
PathOf(n) == IF n = 0 THEN <<>> ELSE Append(PathOf(Parent(n)), n)

Last(p) == IF p = <<>> THEN 0 ELSE p[Len(p)]

\* os.path.exists(path) for a path of the tree
Exists(p) == p = <<>> \/ kind[Last(p)] # "absent"

\* the trees a filesystem can hold: an entry exists only inside a directory
TreeOK(k) == \A n \in Nodes :
    (k[n] # "absent" /\ Parent(n) # 0) => k[Parent(n)] = "dir"

Kinds == {"absent", "file", "dir"}
\* item_from_path (library.py:342-357, manager.py:68-83) returns None
\* ("none") or an item of the first registered class that matches; the class
\* has EnableNestedItems true ("nested") or false ("flat", the default,
\* library.py:64).
Classes == {"none", "nested", "flat"}

\* dirs and files as os.walk yields them for the directory at path p
\* With followlinks=True a symbolic link to a directory counts as a
\* directory and is descended into; the links of the model point at the
\* root, so each of them closes a cycle.
Target(n) == IF n # 0 /\ kind[n] = "link" THEN 0 ELSE n

WalkDirs(p) ==
    LET IsDir(n) == kind[n] \in {"dir", "link"}
    IN SelectSeq(Children(Target(Last(p))), IsDir)
WalkFiles(p) ==
    LET IsFile(n) == kind[n] = "file"
    IN SelectSeq(Children(Target(Last(p))), IsFile)

\* list.remove(x) on a list that contains x
ListRemove(l, x) ==
    LET i == CHOOSE j \in 1..Len(l) : l[j] = x /\ \A h \in 1..(j - 1) : l[h] # x
    IN SubSeq(l, 1, i - 1) \o SubSeq(l, i + 1, Len(l))

InList(l, x) == \E j \in 1..Len(l) : l[j] = x

(***************************************************************************)
(* LibraryManager.find_items as a generator.  Positions: "walk" (os.walk   *)
(* is resumed and lists the next directory), "loop" (the body of `for      *)
(* filename in files`), "post" (the code after that loop), "done" (the     *)
(* generator is exhausted), "raised" (an exception left it).               *)
(*   stack   the directories os.walk will still visit, next first          *)
(*   root, dirs, files, i   the walk step being processed                  *)
(*   remove  the local `remove`: "unbound", "true" or "false"              *)
(*   out     the items yielded so far (their paths)                        *)
(*   seen    the directories os.walk has listed                            *)
(***************************************************************************)
WalkStart ==
    [pc |-> "walk", stack |-> << <<>> >>, root |-> <<>>, dirs |-> <<>>,
     files |-> <<>>, i |-> 1, remove |-> "unbound", out |-> <<>>,
     seen |-> {}, err |-> "none"]

WalkIdle ==
    [pc |-> "done", stack |-> <<>>, root |-> <<>>, dirs |-> <<>>,
     files |-> <<>>, i |-> 1, remove |-> "unbound", out |-> <<>>,
     seen |-> {}, err |-> "none"]

\* library.py:420-421, manager.py:146-147: os.walk yields the next
\* directory; files.extend(dirs)
WalkList(w) ==
    IF w.stack = <<>> THEN [w EXCEPT !.pc = "done"]
    ELSE LET p == Head(w.stack)
             fl == WalkFiles(p) \o WalkDirs(p)
         IN [w EXCEPT !.stack = Tail(w.stack),
                      !.root = p,
                      !.dirs = WalkDirs(p),
                      !.files = fl,
                      !.i = 1,
                      !.seen = w.seen \cup {p},
                      !.pc = IF fl = <<>> THEN "post" ELSE "loop"]

\* manager.py:149: `remove = False` opens every iteration; library.py has no
\* such line, so `remove` keeps the value of the iteration before and is
\* unbound until an item without nesting has been met.
RemoveAtEntry(w) == IF mgr = "widgets" THEN "false" ELSE w.remove

\* library.py:422-430, manager.py:148-157: one iteration of the loop over
\* files
WalkLoop(w) ==
    LET n == w.files[w.i]
        item == cls[n] # "none"
        rm == IF item /\ cls[n] = "flat" THEN "true" ELSE RemoveAtEntry(w)
        w1 == [w EXCEPT !.remove = rm,
                        !.out = IF item THEN Append(w.out, Append(w.root, n))
                                ELSE w.out]
        w2 == [w1 EXCEPT !.i = w.i + 1,
                         !.pc = IF w.i + 1 > Len(w.files) THEN "post"
                                ELSE "loop"]
    IN  IF rm = "unbound"
        THEN [w1 EXCEPT !.pc = "raised", !.err = "UnboundLocalError"]
        ELSE IF rm = "true" /\ w.dirs # <<>>
        THEN IF InList(w.dirs, n)
             THEN [w2 EXCEPT !.dirs = ListRemove(w.dirs, n)]
             ELSE [w1 EXCEPT !.pc = "raised", !.err = "ValueError"]
        ELSE w2

\* (mutant of WalkPost: dirs is never cleared)
WalkPost_NoDepthCut(w, d) ==
    IF d = 1 THEN [w EXCEPT !.pc = "done"]
    ELSE [w EXCEPT !.stack = [j \in 1..Len(w.dirs) |->
                                 Append(w.root, w.dirs[j])] \o w.stack,
                   !.pc = "walk"]

\* library.py:432-438, manager.py:159-165: break at depth 1; clear dirs
\* when (current_depth - start_depth) >= max_depth; then os.walk descends
\* into what is left in dirs, in order.
WalkPost(w, d) ==
    IF d = 1 THEN [w EXCEPT !.pc = "done"]
    ELSE LET left == IF Len(w.root) >= d THEN <<>> ELSE w.dirs
         IN [w EXCEPT !.dirs = left,
                      !.stack = [j \in 1..Len(left) |-> Append(w.root, left[j])]
                                   \o w.stack,
                      !.pc = "walk"]

WalkStep(w, d) ==
    CASE w.pc = "walk" -> WalkList(w)
      [] w.pc = "loop" -> WalkLoop(w)
      [] w.pc = "post" -> WalkPost(w, d)
      [] OTHER -> w

\* the generator run to its end, as list(find_items(path, depth)) does
RECURSIVE RunWalk(_, _)
RunWalk(w, d) ==
    IF w.pc \in {"done", "raised"} THEN w ELSE RunWalk(WalkStep(w, d), d)

find_items(d) == RunWalk(WalkStart, d)

(***************************************************************************)
(* Documents.  A document maps item paths to fields-maps; a fields-map     *)
(* maps field names to values.  LibraryItem.create_item_data computes the  *)
(* fields of an item from its path alone (name, path, type, folder,        *)
(* category): the field "name" stands for them, its fresh value being the  *)
(* node of the path.  "tag" is a persisted field the crawl does not        *)
(* compute.                                                                *)
(***************************************************************************)
EmptyDoc == [p \in {} |-> <<>>]

\* items.py:595-611: create_item_data
\* (name stands for the five fields, all computed from the path)
item_data(p) == [name |-> Last(p)]

\* dict.update(other)
Update(a, b) ==
    [f \in (DOMAIN a) \cup (DOMAIN b) |-> IF f \in DOMAIN b THEN b[f] ELSE a[f]]

\* order of the keys of a document: the order of the path strings
PathLess(p, q) ==
    \/ (Len(p) < Len(q) /\ SubSeq(q, 1, Len(p)) = p)
    \/ \E i \in 1..Len(p) :
          /\ i <= Len(q)
          /\ p[i] < q[i]
          /\ \A j \in 1..(i - 1) : p[j] = q[j]

RECURSIVE SortPaths(_)
SortPaths(S) ==
    IF S = {} THEN <<>>
    ELSE LET m == CHOOSE x \in S : \A y \in S \ {x} : PathLess(x, y)
         IN <<m>> \o SortPaths(S \ {m})

\* the orders in which a dict of fields can be iterated.  Only the keys of
\* the document are sorted by save_json; json.dumps is called without
\* sort_keys, so the fields of an entry are written in the iteration order of
\* its dict, which Python 2 leaves to the history of the dict.
FieldOrders(e) ==
    {s \in [1..Cardinality(DOMAIN e) -> DOMAIN e] :
        \A i, j \in DOMAIN s : s[i] = s[j] => i = j}

Orders(doc) ==
    IF DOMAIN doc = {} THEN {doc}
    ELSE {o \in [DOMAIN doc -> UNION {FieldOrders(doc[p]) : p \in DOMAIN doc}] :
            \A p \in DOMAIN doc : o[p] \in FieldOrders(doc[p])}

\* library.py:292-293: OrderedDict(sorted(data.items())), json.dumps: the
\* entries in the order of their keys, the fields of each in the order o
Serialize(doc, o) ==
    LET ks == SortPaths(DOMAIN doc)
    IN [i \in 1..Len(ks) |->
          [key |-> ks[i],
           val |-> [j \in 1..Len(o[ks[i]]) |->
                      [f |-> o[ks[i]][j], v |-> doc[ks[i]][o[ks[i]][j]]]]]]

\* library.py:278-279: json.loads(read(path) or '{}')
ParseEntry(val) ==
    [f \in {val[j].f : j \in 1..Len(val)} |->
        (CHOOSE x \in {val[j] : j \in 1..Len(val)} : x.f = f).v]

Parse(c) ==
    [p \in {c[i].key : i \in 1..Len(c)} |->
        ParseEntry((CHOOSE e \in {c[i] : i \in 1..Len(c)} : e.key = p).val)]

\* LibraryUtils.read_json of a data file written by save_json.  The item
\* paths are kept in their absolute form: the rewriting of write() and
\* read() (get_relative_path, absolute_path) is modelled on the token
\* contents of the store.
read_json(f) == Parse(IF f.exists THEN f.content ELSE <<>>)

\* library.py:237-239: the whole content reaches the .tmp
RECURSIVE FillTmp(_, _)
FillTmp(f, c) ==
    IF c = <<>> THEN f ELSE FillTmp(WriteTmp(f, Head(c)), Tail(c))

\* LibraryUtils.write run from its first to its last line with no failure:
\* the result is [fs, raised].
write(f, c) ==
    IF IsLocked(MakeDirs(f))
    THEN [fs |-> MakeDirs(f), raised |-> TRUE]
    ELSE [fs |-> RemoveBak(RenameTmpToPath(RenamePathToBak(RemoveOldBak(
                    FillTmp(OpenTmp(MakeDirs(f)), c))))),
          raised |-> FALSE]

\* LibraryUtils.save_json
save_json(f, doc, o) == write(f, Serialize(doc, o))

(***************************************************************************)
(* Library: dirty tracking, read, save, sync, create_items.                *)
(***************************************************************************)
\* library.py:640-651: Library.mtime()
mtime == IF fs.path.exists THEN fmtime ELSE None

\* library.py:695-701: not self._items or self._mtime != self.mtime()
is_dirty == _items = <<>> \/ _mtime # mtime

\* library.py:703-712: set_dirty(value), the new _mtime
set_dirty(value) == IF value THEN None ELSE mtime

\* library.py:714-728: read(): the document it leaves in _data and returns
ReadData == IF is_dirty THEN read_json(fs.path) ELSE _data
\* ... and the _mtime it leaves
ReadMtime == IF is_dirty THEN set_dirty(FALSE) ELSE _mtime

\* library.py:964-966: drop the keys whose path does not exist
Prune_Keep(doc) == doc
Prune(doc) == [p \in {q \in DOMAIN doc : Exists(q)} |-> doc[p]]

\* library.py:974-977: item_data = data.get(path, {});
\* item_data.update(item.item_data()); data[path] = item_data
MergeItem_Overwrite(doc, p) ==
    [q \in (DOMAIN doc) \cup {p} |-> IF q = p THEN item_data(p) ELSE doc[q]]
MergeItem(doc, p) ==
    [q \in (DOMAIN doc) \cup {p} |->
        IF q = p
        THEN Update(IF p \in DOMAIN doc THEN doc[p] ELSE <<>>, item_data(p))
        ELSE doc[q]]

RECURSIVE MergeItems(_, _)
MergeItems(doc, ps) ==
    IF ps = <<>> THEN doc ELSE MergeItems(MergeItem(doc, Head(ps)), Tail(ps))

\* manager.py:85-96: items_from_paths keeps the paths that resolve
Resolves(p) == cls[Last(p)] # "none"

items_from_paths(ps) == SelectSeq(ps, Resolves)

(***************************************************************************)
(* Library.match (library.py:496-544).  A string is a sequence of          *)
(* characters; a fields-map is a function from field names to strings.     *)
(***************************************************************************)
\* str.lower()
LowerChar(ch) == IF ch = "A" THEN "a" ELSE IF ch = "B" THEN "b" ELSE ch

Lower(str) == [i \in 1..Len(str) |-> LowerChar(str[i])]

\* value in item_value
Contains(value, str) ==
    \E i \in 0..(Len(str) - Len(value)) :
        SubSeq(str, i + 1, i + Len(value)) = value

\* item_value.startswith(value)
StartsWith(str, value) ==
    Len(value) <= Len(str) /\ SubSeq(str, 1, Len(value)) = value

\* str(data): the text of the whole map, never empty
StrOfData(fields) ==
    <<"{">> \o (IF "name" \in DOMAIN fields THEN fields["name"] ELSE <<>>)
            \o <<"}">>

\* library.py:513-516: item_value; has is false for the None of data.get
ItemValue(fields, key) ==
    IF key = "*" THEN [has |-> TRUE, val |-> StrOfData(fields)]
    ELSE IF key \in DOMAIN fields THEN [has |-> TRUE, val |-> fields[key]]
    ELSE [has |-> FALSE, val |-> <<>>]

\* (mutant of EvalFilter: the conditions are applied to a falsy value too,
\* so that 'not' and 'not_contains' hold of a missing field)
EvalFilter_NoFalsyTest(fields, t, m) ==
    LET iv == ItemValue(fields, t[1])
        item_value == Lower(iv.val)
        value == Lower(t[3])
    IN  CASE t[2] = "contains" -> Contains(value, item_value)
          [] t[2] = "not_contains" -> ~Contains(value, item_value)
          [] t[2] = "is" -> value = item_value
          [] t[2] = "not" -> value # item_value
          [] t[2] = "startswith" -> StartsWith(item_value, value)
          [] OTHER -> m

\* library.py:518-533: the value of `match` after one filter, m being its
\* value before; a condition that is none of the five leaves it as it was
EvalFilter(fields, t, m) ==
    LET iv == ItemValue(fields, t[1])
        item_value == Lower(iv.val)
        value == Lower(t[3])
    IN  IF ~iv.has \/ item_value = <<>> THEN FALSE
        ELSE CASE t[2] = "contains" -> Contains(value, item_value)
               [] t[2] = "not_contains" -> ~Contains(value, item_value)
               [] t[2] = "is" -> value = item_value
               [] t[2] = "not" -> value # item_value
               [] t[2] = "startswith" -> StartsWith(item_value, value)
               [] OTHER -> m

\* library.py:512-538: the loop over the filters of one query, from the
\* i-th on, with its two breaks
RECURSIVE MatchLoop_NoBreak(_, _, _, _)
MatchLoop_NoBreak(fields, query, i, m) ==
    IF i > Len(query.filters) THEN m
    ELSE MatchLoop_NoBreak(fields, query, i + 1,
                           EvalFilter(fields, query.filters[i], m))

RECURSIVE MatchLoop(_, _, _, _)
MatchLoop(fields, query, i, m) ==
    IF i > Len(query.filters) THEN m
    ELSE LET m2 == EvalFilter(fields, query.filters[i], m)
         IN  IF query.operator = "or" /\ m2 THEN m2
             ELSE IF query.operator = "and" /\ ~m2 THEN m2
             ELSE MatchLoop(fields, query, i + 1, m2)

\* library.py:506-542: the list `matches`; queries without filters add
\* nothing to it
RECURSIVE Matches(_, _)
Matches(fields, queries) ==
    IF queries = <<>> THEN <<>>
    ELSE LET q == Head(queries)
             rest == Matches(fields, Tail(queries))
         IN  IF q.filters = <<>> THEN rest
             ELSE <<MatchLoop(fields, q, 1, FALSE)>> \o rest

\* library.py:544: all(matches)
match(fields, queries) ==
    LET ms == Matches(fields, queries)
    IN \A i \in 1..Len(ms) : ms[i]

(***************************************************************************)
(* Library.sorted (library.py:546-571).  An item is [id, data]: id is its  *)
(* identity (its place in the list given), data its item_data().  Values   *)
(* are ranked as Python 2 compares them: False below every string, the     *)
(* empty string below every other string.                                  *)
(***************************************************************************)
FalseRank == -1
EmptyRank == 0

\* library.py:557-561: field.split(':') of a token, kept as the list of its
\* parts; reverse = tokens[1] != 'asc'
FieldOf(token) == token[1]

ReverseOf(token) == Len(token) > 1 /\ token[2] # "asc"

\* library.py:563-565: sort_key
sort_key(item, field, reverse) ==
    IF field \in DOMAIN item.data THEN item.data[field]
    ELSE IF reverse THEN FalseRank ELSE EmptyRank

Reverse(seq) == [i \in 1..Len(seq) |-> seq[Len(seq) + 1 - i]]

\* the builtin sorted(items, key=sort_key, reverse=reverse): stable, also
\* when reverse is set.  SortInto puts the items of `rest` one by one into
\* the sorted list `acc`, each behind the items it does not go before.
RECURSIVE SortInto(_, _, _, _)
SortInto(acc, rest, field, reverse) ==
    IF rest = <<>> THEN acc
    ELSE LET x == Head(rest)
             k == sort_key(x, field, reverse)
             n == Cardinality({i \in 1..Len(acc) :
                     IF reverse THEN sort_key(acc[i], field, reverse) >= k
                     ELSE sort_key(acc[i], field, reverse) <= k})
         IN SortInto(SubSeq(acc, 1, n) \o <<x>> \o SubSeq(acc, n + 1, Len(acc)),
                     Tail(rest), field, reverse)

StableSort_ThenReverse(items, field, reverse) ==
    IF reverse THEN Reverse(SortInto(<<>>, items, field, FALSE))
    ELSE SortInto(<<>>, items, field, FALSE)
StableSort(items, field, reverse) == SortInto(<<>>, items, field, reverse)

\* library.py:556-567: for field in reversed(sort_by): items = sorted(...)
RECURSIVE sorted(_, _)
sorted(items, sort_by) ==
    IF sort_by = <<>> THEN items
    ELSE LET token == sort_by[Len(sort_by)]
         IN sorted(StableSort(items, FieldOf(token), ReverseOf(token)),
                   SubSeq(sort_by, 1, Len(sort_by) - 1))

(***************************************************************************)
(* Library.group_items (library.py:573-614).  The OrderedDict returned is  *)
(* the sequence of its [key, items] pairs.                                 *)
(***************************************************************************)
\* `if value:` for the value of data.get(field): has is false for None
Truthy_Any(iv) == iv.has
Truthy(iv) == iv.has /\ iv.val # EmptyRank /\ iv.val # FalseRank

\* library.py:598-602: results_, as a function from the values met to the
\* lists of their items
RECURSIVE GroupLoop(_, _, _)
GroupLoop(items, field, results_) ==
    IF items = <<>> THEN results_
    ELSE LET item == Head(items)
             iv == IF field \in DOMAIN item.data
                   THEN [has |-> TRUE, val |-> item.data[field]]
                   ELSE [has |-> FALSE, val |-> EmptyRank]
             value == iv.val
             r2 == IF Truthy(iv)
                   THEN [v \in (DOMAIN results_) \cup {value} |->
                           IF v = value
                           THEN Append(IF v \in DOMAIN results_ THEN results_[v]
                                       ELSE <<>>, item)
                           ELSE results_[v]]
                   ELSE results_
         IN GroupLoop(Tail(items), field, r2)

\* library.py:604: sorted(results_.keys(), reverse=reverse)
RECURSIVE SortedKeys(_, _)
SortedKeys(S, reverse) ==
    IF S = {} THEN <<>>
    ELSE LET m == CHOOSE x \in S : \A y \in S :
                     IF reverse THEN x >= y ELSE x <= y
         IN <<m>> \o SortedKeys(S \ {m}, reverse)

\* library.py:583-614
group_items(items, fields) ==
    IF fields = <<>> THEN <<[key |-> "None", items |-> items]>>
    ELSE LET token == fields[1]
             results_ == GroupLoop(items, FieldOf(token), <<>>)
             groups == SortedKeys(DOMAIN results_, ReverseOf(token))
         IN [g \in 1..Len(groups) |->
                [key |-> groups[g], items |-> results_[groups[g]]]]

\* values of the tree and generator variables where they play no part
\* no sync() is running step by step, and there is no second writer
SyncIdle == [pc |-> "idle", i |-> 0, log |-> <<>>]
NoWriter == [pc |-> "idle", data |-> <<>>, op |-> "none"]

RunIdle ==
    /\ run = SyncIdle
    /\ other = NoWriter

\* manager.py:28-31: a manager with no class registered
RegIdle ==
    /\ _item_classes = <<>>
    /\ ignore_paths = <<>>

TreeIdle ==
    /\ kind = [n \in Nodes |-> "absent"]
    /\ cls = [n \in Nodes |-> "none"]
    /\ RegIdle
    /\ RunIdle

CrawlIdle ==
    /\ depth = 1
    /\ mgr = "widgets"
    /\ walk = WalkIdle

CallIdle ==
    /\ fn = "none"
    /\ arg = <<>>
    /\ ret = <<>>

LibIdle ==
    /\ _mtime = None
    /\ _data = EmptyDoc
    /\ _items = <<>>
    /\ fmtime = None
    /\ now = 1
    /\ lop = "none"
    /\ reloaded = FALSE
    /\ pre = EmptyDoc
    /\ crawled = <<>>
    /\ _path = "root"
    /\ _results = <<>>
    /\ _search_enabled = TRUE

(***************************************************************************)
(* Initial states of the store: the data directory may not exist yet; the  *)
(* data file is absent or holds a complete content of an earlier write.    *)
(***************************************************************************)
StoreInit ==
    /\ fs \in {[path |-> p, tmp |-> NoFile, bak |-> NoFile, dirname |-> d] :
                 p \in {NoFile} \cup {File(c) : c \in Contents},
                 d \in BOOLEAN}
    /\ fs.path.exists => fs.dirname
    /\ pc = "idle"
    /\ data = <<>>
    /\ prev = NoFile
    /\ op = "none"
    /\ rd = <<>>
    /\ crashPc = "none"

StoreIdle ==
    /\ fs = [path |-> NoFile, tmp |-> NoFile, bak |-> NoFile, dirname |-> TRUE]
    /\ pc = "idle"
    /\ data = <<>>
    /\ prev = NoFile
    /\ op = "none"
    /\ rd = <<>>
    /\ crashPc = "none"

(***************************************************************************)
(* write(path, data), one action per filesystem step.                      *)
(***************************************************************************)
\* 215-234: the call up to the lock check.  A leftover .tmp raises IOError
\* outside the try block: nothing is cleaned up.
WriteCall(d) ==
    /\ pc = "idle"
    /\ fs' = MakeDirs(fs)
    /\ IF IsLocked(MakeDirs(fs))
       THEN /\ op' = "locked"
            /\ UNCHANGED <<pc, data, prev, crashPc>>
       ELSE /\ pc' = "open_tmp"
            /\ data' = d
            /\ prev' = fs.path
            /\ op' = "writing"
            /\ crashPc' = "none"
    /\ UNCHANGED rd
    /\ UNCHANGED <<treeVars, runVars, callVars, crawlVars, libVars>>

StepOpenTmp ==
    /\ pc = "open_tmp"
    /\ fs' = OpenTmp(fs)
    /\ pc' = "write_tmp"
    /\ UNCHANGED <<data, prev, op, rd, crashPc>>
    /\ UNCHANGED <<treeVars, runVars, callVars, crawlVars, libVars>>

StepWriteTmp ==
    /\ pc = "write_tmp"
    /\ Len(fs.tmp.content) < Len(data)
    /\ fs' = WriteTmp(fs, data[Len(fs.tmp.content) + 1])
    /\ pc' = IF Len(fs.tmp.content) + 1 = Len(data) THEN "rm_old_bak"
             ELSE "write_tmp"
    /\ UNCHANGED <<data, prev, op, rd, crashPc>>
    /\ UNCHANGED <<treeVars, runVars, callVars, crawlVars, libVars>>

StepRemoveOldBak ==
    /\ pc = "rm_old_bak"
    /\ fs' = RemoveOldBak(fs)
    /\ pc' = "mv_path_bak"
    /\ UNCHANGED <<data, prev, op, rd, crashPc>>
    /\ UNCHANGED <<treeVars, runVars, callVars, crawlVars, libVars>>

StepRenamePathToBak ==
    /\ pc = "mv_path_bak"
    /\ fs' = RenamePathToBak(fs)
    /\ pc' = "mv_tmp_path"
    /\ UNCHANGED <<data, prev, op, rd, crashPc>>
    /\ UNCHANGED <<treeVars, runVars, callVars, crawlVars, libVars>>

StepRenameTmpToPath ==
    /\ pc = "mv_tmp_path"
    /\ fs' = RenameTmpToPath(fs)
    /\ pc' = "rm_bak"
    /\ UNCHANGED <<data, prev, op, rd, crashPc>>
    /\ UNCHANGED <<treeVars, runVars, callVars, crawlVars, libVars>>

\* the last step of the body: write() returns
StepRemoveBak ==
    /\ pc = "rm_bak"
    /\ fs' = RemoveBak(fs)
    /\ pc' = "idle"
    /\ op' = "written"
    /\ UNCHANGED <<data, prev, rd, crashPc>>
    /\ UNCHANGED <<treeVars, runVars, callVars, crawlVars, libVars>>

\* 249: a filesystem call of the body raises (and has no effect): the
\* except handler runs.
Raise ==
    /\ pc \in BodyPcs
    /\ pc' = "exc_rm_tmp"
    /\ UNCHANGED <<fs, data, prev, op, rd, crashPc>>
    /\ UNCHANGED <<treeVars, runVars, callVars, crawlVars, libVars>>

StepExceptRemoveTmp ==
    /\ pc = "exc_rm_tmp"
    /\ fs' = ExceptRemoveTmp(fs)
    /\ pc' = "exc_mv_bak"
    /\ UNCHANGED <<data, prev, op, rd, crashPc>>
    /\ UNCHANGED <<treeVars, runVars, callVars, crawlVars, libVars>>

\* 252-255: restore the .bak, then re-raise to the caller
StepExceptRestoreBak ==
    /\ pc = "exc_mv_bak"
    /\ fs' = ExceptRestoreBak(fs)
    /\ pc' = "idle"
    /\ op' = "raised"
    /\ UNCHANGED <<data, prev, rd, crashPc>>
    /\ UNCHANGED <<treeVars, runVars, callVars, crawlVars, libVars>>

\* a filesystem call of the handler raises: that exception leaves write()
ExceptRaise ==
    /\ pc \in ExceptPcs
    /\ pc' = "idle"
    /\ op' = "raised"
    /\ UNCHANGED <<fs, data, prev, rd, crashPc>>
    /\ UNCHANGED <<treeVars, runVars, callVars, crawlVars, libVars>>

\* The process dies inside write(): the filesystem stays as it is, no
\* handler runs, and a later process may call the store again.
Crash ==
    /\ pc # "idle"
    /\ crashPc' = pc
    /\ pc' = "idle"
    /\ op' = "crashed"
    /\ UNCHANGED <<fs, data, prev, rd>>
    /\ UNCHANGED <<treeVars, runVars, callVars, crawlVars, libVars>>

\* 198-212: read(path)
Read ==
    /\ pc = "idle"
    /\ rd' = read(fs.path)
    /\ op' = "read"
    /\ UNCHANGED <<fs, pc, data, prev, crashPc>>
    /\ UNCHANGED <<treeVars, runVars, callVars, crawlVars, libVars>>

Init == StoreInit /\ TreeIdle /\ CrawlIdle /\ LibIdle /\ CallIdle

Next ==
    \/ \E d \in Contents : WriteCall(d)
    \/ StepOpenTmp
    \/ StepWriteTmp
    \/ StepRemoveOldBak
    \/ StepRenamePathToBak
    \/ StepRenameTmpToPath
    \/ StepRemoveBak
    \/ Raise
    \/ StepExceptRemoveTmp
    \/ StepExceptRestoreBak
    \/ ExceptRaise
    \/ Crash
    \/ Read

Spec == Init /\ [][Next]_vars

(***************************************************************************)
(* The crawl on its own: every tree over the nodes, every depth argument,  *)
(* both copies of find_items; the generator is advanced step by step.      *)
(***************************************************************************)
CrawlInit ==
    /\ StoreIdle
    /\ LibIdle
    /\ CallIdle
    /\ kind \in [Nodes -> Kinds]
    /\ TreeOK(kind)
    /\ cls \in [Nodes -> Classes]
    /\ \A n \in Nodes : kind[n] = "absent" => cls[n] = "none"
    /\ RegIdle
    /\ RunIdle
    /\ depth \in 1..MaxDepthArg
    /\ mgr \in {"widgets", "core"}
    /\ walk = WalkStart

CrawlList ==
    /\ walk.pc = "walk"
    /\ walk.stack # <<>> => Len(Head(walk.stack)) <= MaxWalkLen
    /\ walk' = WalkList(walk)
    /\ UNCHANGED <<storeVars, treeVars, runVars, callVars, depth, mgr, libVars>>

CrawlLoop ==
    /\ walk.pc = "loop"
    /\ walk' = WalkLoop(walk)
    /\ UNCHANGED <<storeVars, treeVars, runVars, callVars, depth, mgr, libVars>>

CrawlPost ==
    /\ walk.pc = "post"
    /\ walk' = WalkPost(walk, depth)
    /\ UNCHANGED <<storeVars, treeVars, runVars, callVars, depth, mgr, libVars>>

CrawlNext == CrawlList \/ CrawlLoop \/ CrawlPost

CrawlSpec == CrawlInit /\ [][CrawlNext]_vars

(***************************************************************************)
(* The crawl over trees that also hold symbolic links to the root.  The    *)
(* consumer of the generator (list(...) in sync) keeps asking for the next *)
(* item, so a step that is possible is taken.                              *)
(***************************************************************************)
LinkKinds == Kinds \cup {"link"}

LinkInit ==
    /\ StoreIdle
    /\ LibIdle
    /\ CallIdle
    /\ kind \in [Nodes -> LinkKinds]
    /\ TreeOK(kind)
    /\ cls \in [Nodes -> Classes]
    /\ \A n \in Nodes : kind[n] = "absent" => cls[n] = "none"
    /\ RegIdle
    /\ RunIdle
    /\ depth \in 1..MaxDepthArg
    /\ mgr \in {"widgets", "core"}
    /\ walk = WalkStart

LinkSpec == LinkInit /\ [][CrawlNext]_vars /\ WF_vars(CrawlNext)

(***************************************************************************)
(* The Library: one action per method.  The data file is written by        *)
(* write() in one piece here; another process may replace or remove the    *)
(* data file, and the clock ticks.                                         *)
(***************************************************************************)
\* library.py:714-728; without a root, logs and returns None (720-722)
LibRead ==
    /\ IF _path = NoPath
       THEN /\ lop' = "read_noroot"
            /\ reloaded' = FALSE
            /\ UNCHANGED <<_data, _mtime>>
       ELSE /\ _data' = ReadData
            /\ _mtime' = ReadMtime
            /\ reloaded' = is_dirty
            /\ lop' = "read"
    /\ pre' = EmptyDoc
    /\ crawled' = <<>>
    /\ UNCHANGED <<storeVars, treeVars, runVars, callVars, crawlVars, _path,
                   _results, _search_enabled, _items, fmtime, now>>

\* library.py:488-494, 739: data_path() is left to the subclasses of
\* Library.  With a root it is the data file.  Without one it is called all
\* the same by save(): it raises (as the base class does, or on joining
\* None), or it names a file.
DataPathRaises == IF _path = NoPath THEN BOOLEAN ELSE {FALSE}

\* library.py:730-740: save_json, then set_dirty(True); IOError of write()
\* propagates before set_dirty.  Without a root save() logs (736-737) and,
\* having no return there, goes on to line 739.
LibSave(doc) ==
    \E o \in Orders(doc), dpr \in DataPathRaises :
    LET r == save_json(fs, doc, o) IN
    /\ IF dpr
       THEN /\ lop' = "save_noroot_raised"
            /\ UNCHANGED <<fs, _mtime, fmtime>>
       ELSE /\ fs' = r.fs
            /\ IF r.raised
               THEN /\ lop' = "save_raised"
                    /\ UNCHANGED <<_mtime, fmtime>>
               ELSE /\ lop' = "save"
                    /\ _mtime' = set_dirty(TRUE)
                    /\ fmtime' = now
    /\ pre' = EmptyDoc
    /\ crawled' = <<>>
    /\ UNCHANGED <<pc, data, prev, op, rd, crashPc, treeVars, runVars, callVars, crawlVars, _path,
                   _results, _search_enabled,
                   _data, _items, now, reloaded>>

\* library.py:703-712
LibSetDirty(value) ==
    /\ _path # NoPath
    /\ _mtime' = set_dirty(value)
    /\ lop' = IF value THEN "set_dirty_true" ELSE "set_dirty_false"
    /\ pre' = EmptyDoc
    /\ crawled' = <<>>
    /\ UNCHANGED <<storeVars, treeVars, runVars, callVars, crawlVars, _path,
                   _results, _search_enabled, _data, _items, fmtime,
                   now, reloaded>>

\* outcomes of sync() that returned: the first of a run, and one that
\* directly follows another
SyncDone == {"sync", "sync_again"}

\* library.py:953-985: read, prune, crawl, merge, post_sync (a no-op), save.
\* `data` is the object held in self._data: pruning and merging change the
\* cached document in place, also when the crawl or the save raises.
\* Without a root sync() logs and returns (958-960).
LibSync ==
    LET read0 == ReadData
        pruned == Prune(read0)
        w == find_items(DEFAULT_RECURSIVE_DEPTH)
        merged == MergeItems(pruned, w.out)
    IN
    \E o \in Orders(merged) :
    LET r == save_json(fs, merged, o) IN
    IF _path = NoPath
    THEN /\ lop' = "sync_noroot"
         /\ reloaded' = FALSE
         /\ pre' = EmptyDoc
         /\ crawled' = <<>>
         /\ UNCHANGED <<storeVars, treeVars, runVars, callVars, crawlVars, _path,
                        _results, _search_enabled, _data, _mtime, _items,
                        fmtime, now>>
    ELSE
    /\ reloaded' = is_dirty
    /\ pre' = read0
    /\ IF w.pc = "raised"
       THEN /\ lop' = "sync_crawl_raised"
            /\ _data' = pruned
            /\ _mtime' = ReadMtime
            /\ crawled' = <<>>
            /\ UNCHANGED <<fs, fmtime>>
       ELSE /\ _data' = merged
            /\ crawled' = w.out
            /\ fs' = r.fs
            /\ IF r.raised
               THEN /\ lop' = "sync_save_raised"
                    /\ _mtime' = ReadMtime
                    /\ UNCHANGED fmtime
               ELSE /\ lop' = IF lop \in SyncDone THEN "sync_again"
                              ELSE "sync"
                    /\ _mtime' = set_dirty(TRUE)
                    /\ fmtime' = now
    /\ UNCHANGED <<pc, data, prev, op, rd, crashPc, treeVars, runVars, callVars, crawlVars, _path,
                   _results, _search_enabled,
                   _items, now>>

\* library.py:995-1011: create_items, with load_item_data (812-824), which
\* calls the missing method set_item_idata on the first item whose key is in
\* the document: AttributeError, after self._items has been assigned.
LibCreateItems ==
    LET its == items_from_paths(SortPaths(DOMAIN ReadData)) IN
    /\ _path # NoPath
    /\ IF is_dirty
       THEN /\ _data' = ReadData
            /\ _mtime' = ReadMtime
            /\ _items' = its
            /\ reloaded' = TRUE
            /\ lop' = IF its = <<>> THEN "create_items"
                      ELSE "create_items_raised"
       ELSE /\ lop' = "create_items"
            /\ UNCHANGED <<_data, _mtime, _items, reloaded>>
    /\ pre' = EmptyDoc
    /\ crawled' = <<>>
    /\ UNCHANGED <<storeVars, treeVars, runVars, callVars, crawlVars, _path,
                   _results, _search_enabled, fmtime, now>>

\* library.py:826-851: Library.find_items(queries) over the items that
\* create_items returned; no query is registered, no sort_by is set.  An
\* item's item_data() is what it computed from its path.
LibFindItems(its, queries) ==
    LET Matching(q) == match(item_data(q), queries)
    IN SelectSeq(its, Matching)

\* library.py:911-927: search(): create_items (995-1011), find_items,
\* group_items.  create_items reloads when dirty and then raises in
\* load_item_data as soon as there is an item; _results is not assigned then.
LibSearch ==
    LET dirty == is_dirty
        its == IF dirty THEN items_from_paths(SortPaths(DOMAIN ReadData))
               ELSE _items
    IN
    /\ _path # NoPath
    /\ IF ~_search_enabled
       THEN /\ lop' = "search_disabled"
            /\ UNCHANGED <<_data, _mtime, _items, _results, reloaded>>
       ELSE /\ _data' = ReadData
            /\ _mtime' = ReadMtime
            /\ _items' = its
            /\ reloaded' = dirty
            /\ IF dirty /\ its # <<>>
               THEN /\ lop' = "search_raised"
                    /\ UNCHANGED _results
               ELSE /\ lop' = "search"
                    /\ _results' = LibFindItems(its, <<>>)
    /\ pre' = EmptyDoc
    /\ crawled' = <<>>
    /\ UNCHANGED <<storeVars, treeVars, runVars, callVars, crawlVars, _path,
                   _search_enabled, fmtime, now>>

\* library.py:750-756
LibSetSearchEnabled(flag) ==
    /\ _path # NoPath
    /\ _search_enabled' = flag
    /\ lop' = "set_search_enabled"
    /\ pre' = EmptyDoc
    /\ crawled' = <<>>
    /\ UNCHANGED <<storeVars, treeVars, runVars, callVars, crawlVars, _path, _results,
                   _mtime, _data, _items, fmtime, now, reloaded>>

\* outcomes of save_item_data() after which the document has been saved:
\* returned without a search, returned after the search, the search raised
AddSaved == {"add_quiet", "add", "add_search_raised"}

\* library.py:766-810: add_item, add_items, update_item are
\* save_item_data(items); emit is its emit_data_changed.  data_ is the
\* object held in self._data, so the merge changes the cached document in
\* place.  After save() the library is dirty and the data file exists, so
\* the create_items of search() reloads, assigns _items and runs into
\* load_item_data.
LibSaveItemData(ps, emit) ==
    LET read0 == ReadData
        merged == MergeItems(read0, ps)
    IN
    \E o \in Orders(merged) :
    LET r == save_json(fs, merged, o)
        reread == read_json(r.fs.path)
        its == items_from_paths(SortPaths(DOMAIN reread))
    IN
    /\ _path # NoPath
    /\ pre' = read0
    /\ crawled' = ps
    /\ fs' = r.fs
    /\ IF r.raised
       THEN /\ lop' = "add_save_raised"
            /\ _data' = merged
            /\ _mtime' = ReadMtime
            /\ reloaded' = is_dirty
            /\ UNCHANGED <<fmtime, _items, _results>>
       ELSE /\ fmtime' = now
            /\ IF emit /\ _search_enabled
               THEN /\ _data' = reread
                    /\ _mtime' = now
                    /\ _items' = its
                    /\ reloaded' = TRUE
                    /\ IF its # <<>>
                       THEN /\ lop' = "add_search_raised"
                            /\ UNCHANGED _results
                       ELSE /\ lop' = "add"
                            /\ _results' = LibFindItems(its, <<>>)
               ELSE /\ lop' = "add_quiet"
                    /\ _data' = merged
                    /\ _mtime' = set_dirty(TRUE)
                    /\ reloaded' = is_dirty
                    /\ UNCHANGED <<_items, _results>>
    /\ UNCHANGED <<pc, data, prev, op, rd, crashPc, treeVars, runVars, callVars,
                   crawlVars, _path, _search_enabled, now>>

\* another process replaces the data file
ExternalWrite(doc) ==
    /\ \E o \in Orders(doc) : fs' = [fs EXCEPT !.path = File(Serialize(doc, o))]
    /\ fmtime' = now
    /\ lop' = "external"
    /\ pre' = EmptyDoc
    /\ crawled' = <<>>
    /\ UNCHANGED <<pc, data, prev, op, rd, crashPc, treeVars, runVars, callVars, crawlVars, _path,
                   _results, _search_enabled,
                   _mtime, _data, _items, now, reloaded>>

\* the data file is removed from outside
ExternalRemove ==
    /\ fs.path.exists
    /\ fs' = [fs EXCEPT !.path = NoFile]
    /\ fmtime' = None
    /\ lop' = "external"
    /\ pre' = EmptyDoc
    /\ crawled' = <<>>
    /\ UNCHANGED <<pc, data, prev, op, rd, crashPc, treeVars, runVars, callVars, crawlVars, _path,
                   _results, _search_enabled,
                   _mtime, _data, _items, now, reloaded>>

\* the clock of the filesystem advances by one mtime tick
Tick ==
    /\ now < MaxTime
    /\ now' = now + 1
    /\ UNCHANGED <<storeVars, treeVars, runVars, callVars, crawlVars, _path,
                   _results, _search_enabled, _mtime, _data, _items,
                   fmtime, lop, reloaded, pre, crawled>>

\* a tree whose nodes 1 and 2 are as given, the others absent
TreeOf(k1, c1, k2, c2) ==
    [kind |-> [n \in Nodes |-> IF n = 1 THEN k1 ELSE IF n = 2 THEN k2
                               ELSE "absent"],
     cls |-> [n \in Nodes |-> IF n = 1 THEN c1 ELSE IF n = 2 THEN c2
                              ELSE "none"]]

\* an item file; an item file beside a plain directory; an item file that
\* has been deleted
LibTrees == {TreeOf("file", "flat", "absent", "none"),
             TreeOf("file", "flat", "dir", "none"),
             TreeOf("absent", "flat", "absent", "none")}

LibDocs == {EmptyDoc,
            [p \in {<<1>>} |-> [tag |-> 1]],
            [p \in {<<1>>, <<2>>} |->
                IF p = <<1>> THEN [name |-> 0] ELSE [tag |-> 1]]}

\* the items given to add_item / update_item (one) and add_items
AddedItems == {<< <<1>> >>, << <<2>> >>, << <<1>>, <<2>> >>}

\* the data file and the leftover .tmp a Library may find
DataFiles(docs) ==
    {[path |-> f, tmp |-> t, bak |-> NoFile, dirname |-> TRUE] :
        f \in {NoFile} \cup
               UNION {{File(Serialize(d, o)) : o \in Orders(d)} : d \in docs},
        t \in {NoFile, File(<<>>)}}

\* library.py:465-485: a new Library: no items, empty document, dirty
NewLibrary ==
    /\ _mtime = None
    /\ _data = EmptyDoc
    /\ _items = <<>>
    /\ fmtime = IF fs.path.exists THEN 1 ELSE None
    /\ now = 1
    /\ lop = "none"
    /\ reloaded = FALSE
    /\ pre = EmptyDoc
    /\ crawled = <<>>
    /\ _results = <<>>
    /\ _search_enabled = TRUE

LibInit ==
    /\ fs \in DataFiles(LibDocs)
    /\ pc = "idle" /\ data = <<>> /\ prev = NoFile
    /\ op = "none" /\ rd = <<>> /\ crashPc = "none"
    /\ \E t \in LibTrees : kind = t.kind /\ cls = t.cls
    /\ RegIdle
    /\ RunIdle
    /\ depth = 1
    /\ mgr \in {"widgets", "core"}
    /\ walk = WalkIdle
    /\ NewLibrary
    /\ _path \in {"root", NoPath}
    /\ CallIdle

LibNext ==
    \/ LibRead
    \/ \E doc \in LibDocs : LibSave(doc)
    \/ \E value \in BOOLEAN : LibSetDirty(value)
    \/ LibSync
    \/ LibCreateItems
    \/ \E doc \in LibDocs : ExternalWrite(doc)
    \/ ExternalRemove
    \/ Tick

LibSpec == LibInit /\ [][LibNext]_vars

(***************************************************************************)
(* add_item / add_items / update_item and search() on a library with a     *)
(* root, while the clock advances.                                         *)
(***************************************************************************)
ItemInit ==
    /\ LibInit
    /\ _path = "root"

ItemNext ==
    \/ \E ps \in AddedItems, emit \in BOOLEAN : LibSaveItemData(ps, emit)
    \/ LibSearch
    \/ \E flag \in BOOLEAN : LibSetSearchEnabled(flag)
    \/ Tick

ItemSpec == ItemInit /\ [][ItemNext]_vars

(***************************************************************************)
(* sync() on every tree over the first SyncNodes nodes and every document  *)
(* of at most MaxKeys entries.                                             *)
(***************************************************************************)
Entries == {[name |-> 0], [name |-> 0, tag |-> 1], [tag |-> 1]}

SyncPaths == {PathOf(n) : n \in {m \in Nodes : m <= SyncNodes}}

SyncDocs ==
    UNION {[S -> Entries] : S \in {T \in SUBSET SyncPaths : Cardinality(T) <= MaxKeys}}

SyncInit ==
    /\ fs \in DataFiles(SyncDocs)
    /\ pc = "idle" /\ data = <<>> /\ prev = NoFile
    /\ op = "none" /\ rd = <<>> /\ crashPc = "none"
    /\ kind \in [Nodes -> Kinds]
    /\ TreeOK(kind)
    /\ cls \in [Nodes -> Classes]
    /\ \A n \in Nodes : (kind[n] = "absent" => cls[n] = "none")
                        /\ (n > SyncNodes => kind[n] = "absent")
    /\ RegIdle
    /\ RunIdle
    /\ depth = 1
    /\ mgr \in {"widgets", "core"}
    /\ walk = WalkIdle
    /\ NewLibrary
    /\ _path = "root"
    /\ CallIdle

SyncNext == LibSync \/ Tick

SyncSpec == SyncInit /\ [][SyncNext]_vars

(***************************************************************************)
(* Claims about the metadata store, under Spec.                            *)
(***************************************************************************)
\* The positions between "the .tmp is fully written" and "the rename of
\* .tmp onto path has completed".
AtomicWindow == {"rm_old_bak", "mv_path_bak", "mv_tmp_path"}

\* C1: when write(path, new) was interrupted after .tmp was fully written
\* and before .tmp was renamed onto path, a read(path) that follows (also
\* after further write attempts) returns the complete previous content or
\* the complete new content.
C1_Atomicity ==
    (op = "read" /\ crashPc \in AtomicWindow)
        => rd \in {read(prev), read(File(data))}

\* C2: in every intermediate state of write (and in the state a crash
\* leaves behind), the canonical path is absent or holds the complete
\* previous or the complete new content, never an empty or half-written
\* one; and when there was a previous content, path or path.bak holds it or
\* path holds the complete new content.
C2_CrashInvariant ==
    (pc # "idle" \/ op = "crashed") =>
        /\ fs.path \in {NoFile, prev, File(data)}
        /\ prev.exists =>
              (fs.path = prev \/ fs.bak = prev \/ fs.path = File(data))

\* C2 witness: between the two renames the previous content lives only in
\* the .bak and the canonical path is absent.
C2_Witness ==
    /\ pc = "mv_tmp_path"
    /\ prev.exists
    /\ ~fs.path.exists
    /\ fs.bak = prev
    /\ fs.tmp = File(data)

\* C3: a write() called while path.tmp exists raises the locked error and
\* leaves path, path.tmp and path.bak exactly as they were.
C3_Locked ==
    [][(pc = "idle" /\ fs.tmp.exists /\ (op' = "locked" \/ pc' # "idle"))
          => (op' = "locked" /\ pc' = "idle" /\ fs' = fs)]_vars

\* C3 witness: a write was refused while a leftover .tmp and a data file
\* both exist.
C3_Witness ==
    /\ op = "locked"
    /\ fs.tmp.exists
    /\ fs.path.exists

(***************************************************************************)
(* Claims about the crawl, under CrawlSpec.                                *)
(***************************************************************************)
StrictPrefix(p, q) == Len(p) < Len(q) /\ SubSeq(q, 1, Len(p)) = p

\* the nodes on the way from the root to n, n excluded
RECURSIVE Ancestors(_)
Ancestors(n) ==
    IF Parent(n) = 0 THEN {} ELSE {Parent(n)} \cup Ancestors(Parent(n))

\* C9: find_items(root, depth) yields only items that lie at most depth
\* levels below the root.
C9_DepthBound ==
    \A i \in 1..Len(walk.out) : Len(walk.out[i]) <= depth

\* C10, first half: nothing strictly below a path that resolves to an item
\* without nesting is yielded.
C10_NoDescendants ==
    \A n \in Nodes : cls[n] = "flat" =>
        \A j \in 1..Len(walk.out) : ~StrictPrefix(PathOf(n), walk.out[j])

\* C10, second half: when the crawl has ended, every directory above the
\* depth bound that resolves to no item or to an item with nesting, and
\* has no ancestor that is an item without nesting, has been descended into.
C10_StillDescended ==
    walk.pc \in {"done", "raised"} =>
        \A n \in Nodes :
            (/\ kind[n] = "dir"
             /\ cls[n] # "flat"
             /\ Len(PathOf(n)) < depth
             /\ \A a \in Ancestors(n) : cls[a] # "flat")
                => PathOf(n) \in walk.seen

\* C10: nested-item pruning: an item without nesting suppresses everything
\* below it, and every other directory is still descended into, subject
\* only to the depth bound.
C10_NestedPruning == C10_NoDescendants /\ C10_StillDescended

\* the entries of the directories the walk listed
Reached ==
    UNION {{Append(p, (WalkFiles(p) \o WalkDirs(p))[j]) :
               j \in 1..Len(WalkFiles(p) \o WalkDirs(p))} : p \in walk.seen}

C11_NoRaise == walk.pc # "raised"

C11_YieldedOnce ==
    walk.pc = "done" =>
        /\ \A p \in Reached : Resolves(p) =>
              Cardinality({i \in 1..Len(walk.out) : walk.out[i] = p}) = 1
        /\ \A i \in 1..Len(walk.out) : walk.out[i] \in Reached

\* C11: every entry of every directory the walk lists is given to
\* item_from_path, each one that resolves is yielded exactly once, and the
\* crawl ends without raising whatever files and directories a level holds.
C11_Completeness == C11_NoRaise /\ C11_YieldedOnce

(***************************************************************************)
(* Claims about the Library's dirty tracking (LibSpec).                    *)
(***************************************************************************)
\* C4: after save(document), sync() or set_dirty(True) has returned, with the
\* data file present or absent and items cached or not, is_dirty() is true,
\* so that the next read() reloads the document from disk.
C4_DirtyAfter ==
    lop \in SyncDone \cup {"save", "set_dirty_true"} => is_dirty

\* C5: after a read() that returned, the library is clean: is_dirty() is
\* false and the recorded mtime is the data file's mtime, so that a further
\* read() returns the cached document.
C5_CleanAfterRead ==
    lop = "read" => (~is_dirty /\ _mtime = mtime)

(***************************************************************************)
(* Claims about sync() (SyncSpec).                                         *)
(***************************************************************************)
\* the document in the data file
Persisted == Parse(fs.path.content)

CrawledPaths == {crawled[i] : i \in 1..Len(crawled)}

\* C6: a key of the document whose path does not exist when sync() is called
\* is not a key of the document that sync() persists, and every key of the
\* persisted document is a path that exists.
C6_StalePruned ==
    lop \in SyncDone =>
        /\ \A p \in DOMAIN pre : ~Exists(p) => p \notin DOMAIN Persisted
        /\ \A p \in DOMAIN Persisted : Exists(p)

C6_Witness ==
    /\ lop = "sync"
    /\ \E p \in DOMAIN pre : ~Exists(p)
    /\ DOMAIN Persisted # {}

\* C7: a sync() that directly follows a sync(), with no change of the tree
\* in between, persists the same bytes as the first.
C7_Idempotent ==
    [][lop' = "sync_again" => fs'.path.content = fs.path.content]_vars

\* the documents persisted by the two agree as documents
C7_SameDocument ==
    [][lop' = "sync_again" => Parse(fs'.path.content) = Persisted]_vars

\* C8: the entry persisted for a crawled item holds every field computed by
\* the crawl with the crawl's value and every other field of the previous
\* entry with its previous value; a crawled path with no entry gets the
\* item's fields; the entries of existing paths that the crawl did not
\* yield are unchanged.
C8_Merge ==
    lop \in SyncDone =>
        /\ \A p \in CrawledPaths :
              /\ p \in DOMAIN Persisted
              /\ \A f \in DOMAIN item_data(p) :
                    /\ f \in DOMAIN Persisted[p]
                    /\ Persisted[p][f] = item_data(p)[f]
              /\ IF p \in DOMAIN pre
                 THEN \A f \in (DOMAIN pre[p]) \ (DOMAIN item_data(p)) :
                         /\ f \in DOMAIN Persisted[p]
                         /\ Persisted[p][f] = pre[p][f]
                 ELSE Persisted[p] = item_data(p)
        /\ \A p \in (DOMAIN pre) \ CrawledPaths :
              Exists(p) => (p \in DOMAIN Persisted /\ Persisted[p] = pre[p])

C8_Witness ==
    /\ lop = "sync"
    /\ \E p \in CrawledPaths :
          /\ p \in DOMAIN pre
          /\ pre[p] = [name |-> 0, tag |-> 1]
    /\ \E p \in (DOMAIN pre) \ CrawledPaths : Exists(p)
    /\ \E p \in CrawledPaths : p \notin DOMAIN pre

(***************************************************************************)
(* Library.match applied to every fields-map and list of queries of the    *)
(* bounded sets below.                                                     *)
(***************************************************************************)
RECURSIVE SeqsUpTo(_, _)
SeqsUpTo(S, n) ==
    IF n = 0 THEN {<<>>} ELSE SeqsUpTo(S, n - 1) \cup SeqsOfLen(S, n)

\* name missing, empty, equal to the query value up to case, different
FieldsMaps ==
    {[f \in {} |-> <<>>]} \cup
    {[name |-> v] : v \in {<<>>, <<"A", "b">>, <<"b">>}}

Conds == {"contains", "not_contains", "is", "not", "startswith"}

Filters ==
    {<<"name", cnd, <<"a", "B">> >> : cnd \in Conds} \cup
    {<<"*", "contains", <<"a", "B">> >>, <<"*", "is", <<"a", "B">> >>}

Queries ==
    {[operator |-> o, filters |-> fl] :
        o \in {"and", "or"}, fl \in SeqsUpTo(Filters, MaxFilters)}

QueryInit ==
    /\ StoreIdle /\ TreeIdle /\ CrawlIdle /\ LibIdle
    /\ fn = "none"
    /\ arg \in {[fields |-> m, queries |-> qs] :
                  m \in FieldsMaps, qs \in SeqsUpTo(Queries, MaxQueries)}
    /\ ret = <<>>

CallMatch ==
    /\ fn = "none"
    /\ fn' = "match"
    /\ ret' = match(arg.fields, arg.queries)
    /\ UNCHANGED <<storeVars, treeVars, runVars, crawlVars, libVars, arg>>

QueryNext == CallMatch

QuerySpec == QueryInit /\ [][QueryNext]_vars

\* a filter is true: the value looked up is not falsy and the condition
\* holds of the two lowered strings
FilterTrue(fields, t) ==
    LET iv == ItemValue(fields, t[1])
        s1 == Lower(iv.val)
        v == Lower(t[3])
    IN  /\ iv.has
        /\ s1 # <<>>
        /\ \/ t[2] = "contains" /\ Contains(v, s1)
           \/ t[2] = "not_contains" /\ ~Contains(v, s1)
           \/ t[2] = "is" /\ v = s1
           \/ t[2] = "not" /\ v # s1
           \/ t[2] = "startswith" /\ StartsWith(s1, v)

QueryTrue(fields, q) ==
    IF q.operator = "and"
    THEN \A i \in 1..Len(q.filters) : FilterTrue(fields, q.filters[i])
    ELSE \E i \in 1..Len(q.filters) : FilterTrue(fields, q.filters[i])

\* C12: match(fields, queries) is the conjunction, over the queries with
\* filters, of each query's own result: all of its filters for 'and', at
\* least one for 'or'; queries without filters change nothing; strings are
\* compared without regard to case.
C12_QuerySemantics ==
    fn = "match" =>
        (ret = \A i \in 1..Len(arg.queries) :
                   arg.queries[i].filters # <<>> =>
                       QueryTrue(arg.fields, arg.queries[i]))

\* name 'Ab' matched by or[(name is-not aB: false), (name startswith aB)]
\* next to a query without filters
C12_Witness ==
    /\ fn = "match"
    /\ ret = TRUE
    /\ Len(arg.queries) = 2
    /\ arg.queries[1].filters = <<>>
    /\ arg.queries[2].operator = "or"
    /\ Len(arg.queries[2].filters) = 2
    /\ ~FilterTrue(arg.fields, arg.queries[2].filters[1])
    /\ arg.queries[2].filters[2] = <<"name", "startswith", <<"a", "B">> >>

(***************************************************************************)
(* Library.sorted applied to every list of at most MaxItems items and      *)
(* every sort_by of at most MaxSortBy tokens.                              *)
(***************************************************************************)
\* item_data() with the fields a and b: each missing or a string, once the
\* empty string
ItemDatas ==
    {[f \in D |-> 1] : D \in SUBSET {"a", "b"}} \cup
    {[f \in D |-> 2] : D \in SUBSET {"a", "b"}} \cup
    {[a |-> 1, b |-> 2], [a |-> 2, b |-> 1], [a |-> EmptyRank, b |-> 1]}

ItemLists ==
    {[i \in 1..Len(ds) |-> [id |-> i, data |-> ds[i]]] :
        ds \in SeqsUpTo(ItemDatas, MaxItems)}

SortTokens ==
    {<<f>> : f \in {"a", "b"}} \cup
    {<<f, o>> : f \in {"a", "b"}, o \in {"asc", "desc"}}

SortInit ==
    /\ StoreIdle /\ TreeIdle /\ CrawlIdle /\ LibIdle
    /\ fn = "none"
    /\ arg \in {[items |-> its, sort_by |-> sb] :
                  its \in ItemLists, sb \in SeqsUpTo(SortTokens, MaxSortBy)}
    /\ ret = <<>>

CallSorted ==
    /\ fn = "none"
    /\ fn' = "sorted"
    /\ ret' = sorted(arg.items, arg.sort_by)
    /\ UNCHANGED <<storeVars, treeVars, runVars, crawlVars, libVars, arg>>

SortNext == CallSorted

SortSpec == SortInit /\ [][SortNext]_vars

\* x goes before y by the token: smaller first, larger first for ':desc'
TokenBefore(x, y, token) ==
    LET desc == Len(token) > 1 /\ token[2] = "desc"
        kx == sort_key(x, token[1], desc)
        ky == sort_key(y, token[1], desc)
    IN IF desc THEN kx > ky ELSE kx < ky

TokenEqual(x, y, token) == ~TokenBefore(x, y, token) /\ ~TokenBefore(y, x, token)

\* x goes before y by the whole sort_by: the first token on which they differ
\* decides; equal on all, the one given first
LexBefore(x, y, sort_by) ==
    \/ \E i \in 1..Len(sort_by) :
          /\ TokenBefore(x, y, sort_by[i])
          /\ \A j \in 1..(i - 1) : TokenEqual(x, y, sort_by[j])
    \/ /\ \A j \in 1..Len(sort_by) : TokenEqual(x, y, sort_by[j])
       /\ x.id < y.id

\* C13: sorted(items, sort_by) is a permutation of items, ordered by the
\* fields of sort_by with the first one dominant, each ascending unless
\* suffixed ':desc', and items equal on all of them keep their input order.
C13_MultiKeySort ==
    fn = "sorted" =>
        /\ Len(ret) = Len(arg.items)
        /\ \A i \in 1..Len(arg.items) : \E j \in 1..Len(ret) : ret[j] = arg.items[i]
        /\ \A i, j \in 1..Len(ret) : i < j => LexBefore(ret[i], ret[j], arg.sort_by)

\* two keys, the second descending, with a tie on both between two items
C13_Witness ==
    /\ fn = "sorted"
    /\ arg.sort_by = << <<"a">>, <<"b", "desc">> >>
    /\ Len(ret) = 3
    /\ ret # arg.items
    /\ \E i, j \in 1..3 : i < j /\ ret[i].data = ret[j].data
    /\ \E i \in 1..3 : "b" \notin DOMAIN ret[i].data

(***************************************************************************)
(* Library.group_items applied to every list of at most MaxItems items and *)
(* every list of at most MaxSortBy tokens.                                 *)
(***************************************************************************)
GroupInit ==
    /\ StoreIdle /\ TreeIdle /\ CrawlIdle /\ LibIdle
    /\ fn = "none"
    /\ arg \in {[items |-> its, fields |-> gb] :
                  its \in ItemLists, gb \in SeqsUpTo(SortTokens, MaxSortBy)}
    /\ ret = <<>>

CallGroupItems ==
    /\ fn = "none"
    /\ fn' = "group_items"
    /\ ret' = group_items(arg.items, arg.fields)
    /\ UNCHANGED <<storeVars, treeVars, runVars, crawlVars, libVars, arg>>

GroupNext == CallGroupItems

GroupSpec == GroupInit /\ [][GroupNext]_vars

\* the item has a value for the field that is neither missing nor empty
HasValue(item, f) == f \in DOMAIN item.data /\ item.data[f] # EmptyRank

\* how many times the item stands in the g-th group
TimesIn(item, g) ==
    Cardinality({i \in 1..Len(ret[g].items) : ret[g].items[i] = item})

\* C14: group_items uses the first token only; an item with a truthy value
\* stands once, in the group keyed by its value, and in no other; an item
\* with a falsy or missing value stands in no group; the items of a group
\* are in input order; the keys ascend, or descend for ':desc'; an empty
\* list of tokens gives the one group 'None' with all items in input order.
C14_Grouping ==
    fn = "group_items" =>
        IF arg.fields = <<>>
        THEN ret = <<[key |-> "None", items |-> arg.items]>>
        ELSE LET f == arg.fields[1][1]
                 desc == Len(arg.fields[1]) > 1 /\ arg.fields[1][2] = "desc"
             IN /\ \A i \in 1..Len(arg.items), g \in 1..Len(ret) :
                      TimesIn(arg.items[i], g) =
                          IF HasValue(arg.items[i], f)
                             /\ ret[g].key = arg.items[i].data[f]
                          THEN 1 ELSE 0
                /\ \A i \in 1..Len(arg.items) :
                      HasValue(arg.items[i], f) =>
                          \E g \in 1..Len(ret) : ret[g].key = arg.items[i].data[f]
                /\ \A g \in 1..Len(ret) : \A i, j \in 1..Len(ret[g].items) :
                      i < j => ret[g].items[i].id < ret[g].items[j].id
                /\ \A g \in 1..Len(ret) : \A i \in 1..Len(ret[g].items) :
                      \E k \in 1..Len(arg.items) : ret[g].items[i] = arg.items[k]
                /\ \A g, h \in 1..Len(ret) :
                      g < h => IF desc THEN ret[g].key > ret[h].key
                               ELSE ret[g].key < ret[h].key

\* the values 2, 2, 1 grouped ascending: {1: [item3], 2: [item1, item2]}
C14_Witness ==
    /\ fn = "group_items"
    /\ arg.fields = << <<"a", "asc">> >>
    /\ Len(arg.items) = 3
    /\ ret = << [key |-> 1, items |-> <<arg.items[3]>>],
                [key |-> 2, items |-> <<arg.items[1], arg.items[2]>>] >>

(***************************************************************************)
(* add_item / update_item                                                  *)
(***************************************************************************)
\* the paths of the items given to the last save_item_data()
AddedPaths == {crawled[i] : i \in 1..Len(crawled)}

\* every added item has an entry with the item's fields over the fields the
\* path had, and the other entries are as they were
C15_Persisted ==
    lop \in AddSaved =>
        /\ DOMAIN Persisted = (DOMAIN pre) \cup AddedPaths
        /\ \A p \in AddedPaths :
              /\ \A f \in DOMAIN item_data(p) :
                    /\ f \in DOMAIN Persisted[p]
                    /\ Persisted[p][f] = item_data(p)[f]
              /\ IF p \in DOMAIN pre
                 THEN \A f \in (DOMAIN pre[p]) \ (DOMAIN item_data(p)) :
                         /\ f \in DOMAIN Persisted[p]
                         /\ Persisted[p][f] = pre[p][f]
                 ELSE Persisted[p] = item_data(p)
        /\ \A p \in (DOMAIN pre) \ AddedPaths : Persisted[p] = pre[p]

\* the search that follows the save returns, and leaves the items of the
\* updated document as the results
C15_Searched ==
    /\ lop # "add_search_raised"
    /\ lop = "add" =>
          _results = items_from_paths(SortPaths(DOMAIN Persisted))

\* C15: once add_item / add_items / update_item has saved, the persisted
\* document holds an entry for each item with the item's fields merged over
\* the fields it had, the other entries are unchanged, the library is dirty,
\* and unless the search is suppressed or disabled search() has run to its
\* end on the updated document.
C15_AddItem ==
    /\ C15_Persisted
    /\ C15_Searched
    /\ lop \in {"add", "add_quiet"} => is_dirty

(***************************************************************************)
(* a library without a root                                                *)
(***************************************************************************)
\* the outcomes of read(), save() and sync() that are an exception
LibRaised == {"save_noroot_raised", "save_raised", "sync_crawl_raised",
              "sync_save_raised"}

NoRootCall == LibRead \/ (\E doc \in LibDocs : LibSave(doc)) \/ LibSync

\* read() and sync() of a library without a root return and change nothing
C16_ReadSyncNoOp ==
    [][(_path = NoPath /\ (LibRead \/ LibSync)) =>
          /\ lop' \notin LibRaised
          /\ fs' = fs
          /\ _data' = _data /\ _mtime' = _mtime /\ _results' = _results]_vars

\* C16: with no root configured, read(), save(document) and sync() return
\* without raising, leave the files alone, and leave the cached document,
\* the dirty mark and the results as they were.
C16_NoRootNoOp ==
    [][(_path = NoPath /\ NoRootCall) =>
          /\ lop' \notin LibRaised
          /\ fs' = fs
          /\ _data' = _data /\ _mtime' = _mtime /\ _results' = _results]_vars

(***************************************************************************)
(* the except handler of write                                             *)
(***************************************************************************)
\* C17: when one step of the body of write raises and the handler runs to
\* its re-raise, the .tmp is gone, and a canonical file that existed when
\* write was called exists again, holding the whole previous or the whole
\* new content.
C17_ExceptionPath ==
    [][StepExceptRestoreBak =>
          /\ op' = "raised"
          /\ ~fs'.tmp.exists
          /\ prev.exists => fs'.path \in {prev, File(data)}]_vars

\* C17 witness: the failure came after path was renamed to .bak, and the
\* handler has put the previous file back
C17_Witness ==
    /\ op = "raised"
    /\ pc = "idle"
    /\ prev.exists
    /\ data # prev.content
    /\ fs.path = prev
    /\ ~fs.bak.exists
    /\ ~fs.tmp.exists

(***************************************************************************)
(* a locked data file                                                      *)
(***************************************************************************)
Locked == fs.tmp.exists /\ _path # NoPath

\* save() on a locked data file raises the locked error of its one write
\* and leaves the files as they are; so does a sync() whose crawl completes
C18_SavePropagates ==
    [][(Locked /\ ((\E doc \in LibDocs : LibSave(doc)) \/ LibSync)) =>
          /\ lop' \in {"save_raised", "sync_save_raised", "sync_crawl_raised"}
          /\ fs' = fs]_vars

\* C18: while the .tmp of the data file exists, save(document) and sync()
\* raise the locked error of the one write they attempt, and the files on
\* disk stay as they are.
C18_LockPropagates ==
    [][(Locked /\ ((\E doc \in LibDocs : LibSave(doc)) \/ LibSync)) =>
          /\ lop' \in {"save_raised", "sync_save_raised"}
          /\ fs' = fs]_vars

(***************************************************************************)
(* LibraryUtils.read_json / save_json on the text of the data file         *)
(* (library.py:269-294).  A text is a sequence of tokens: the braces, the  *)
(* comma, a key with its colon ("a:", "b:"), and the pieces of a string    *)
(* value ("k", a path fragment "../", and the directory prefixes that      *)
(* absolute_path puts in its place).  A fields-map is a function from key  *)
(* names to values, a value a sequence of pieces.                          *)
(***************************************************************************)
MaxText == 4
MaxValueLen == 2

JKeys == {"a", "b"}
KeyToken(k) == IF k = "a" THEN "a:" ELSE "b:"
KeyTokens == {KeyToken(k) : k \in JKeys}
KeyOf(t) == CHOOSE k \in JKeys : KeyToken(k) = t
ValueTokens == Tokens \cup {"D1/", "D2/", "D3/"}
JTokens == {"{", "}", ","} \cup KeyTokens \cup Tokens

EmptyMap == [k \in {} |-> <<>>]
Loaded(m) == [raised |-> FALSE, value |-> m]
ValueError == [raised |-> TRUE, value |-> EmptyMap]

\* the length of the run of value pieces at the head of s
RECURSIVE ValueRun(_)
ValueRun(s) ==
    IF s # <<>> /\ s[1] \in ValueTokens THEN 1 + ValueRun(Tail(s)) ELSE 0

\* the pairs between the braces: key value { , key value }; a key given
\* twice keeps its last value
RECURSIVE LoadPairs(_, _)
LoadPairs(s, acc) ==
    IF s = <<>> \/ s[1] \notin KeyTokens THEN ValueError
    ELSE LET n == ValueRun(Tail(s))
             k == KeyOf(s[1])
             v == SubSeq(s, 2, n + 1)
             rest == SubSeq(s, n + 2, Len(s))
             acc1 == [x \in (DOMAIN acc) \cup {k} |->
                         IF x = k THEN v ELSE acc[x]]
         IN IF rest = <<>> THEN Loaded(acc1)
            ELSE IF rest[1] = "," THEN LoadPairs(Tail(rest), acc1)
            ELSE ValueError

\* library.py:279: json.loads(data): the object the text denotes, or
\* ValueError when the text is not one JSON value
json_loads(text) ==
    IF Len(text) < 2 \/ text[1] # "{" \/ text[Len(text)] # "}"
    THEN ValueError
    ELSE IF Len(text) = 2 THEN Loaded(EmptyMap)
    ELSE LoadPairs(SubSeq(text, 2, Len(text) - 1), EmptyMap)

\* library.py:277-281: read_json(path), on the file f
\* data = LibraryUtils.read(path) or '{}'; data = json.loads(data)
read_json_text(f) ==
    LET d == read(f)
    IN json_loads(IF d = <<>> THEN <<"{", "}">> ELSE d)

\* sorted(data.items(), key=lambda t: t[0]): the order of the key names
KeyLess(j, k) == j = "a" /\ k = "b"

RECURSIVE SortItems(_)
SortItems(its) ==
    IF its = <<>> THEN <<>>
    ELSE LET i == CHOOSE x \in 1..Len(its) :
                     \A y \in 1..Len(its) : ~KeyLess(its[y][1], its[x][1])
         IN <<its[i]>> \o
            SortItems([j \in 1..(Len(its) - 1) |->
                          IF j < i THEN its[j] ELSE its[j + 1]])

\* library.py:293: json.dumps(OrderedDict(...)): the pairs in their order
RECURSIVE DumpPairs(_)
DumpPairs(its) ==
    IF its = <<>> THEN <<>>
    ELSE <<KeyToken(its[1][1])>> \o its[1][2] \o
         (IF Len(its) > 1 THEN <<",">> ELSE <<>>) \o DumpPairs(Tail(its))

json_dumps(its) == <<"{">> \o DumpPairs(its) \o <<"}">>

\* library.py:291-294: save_json(path, data); its is data.items(), the pairs
\* of the dict in the order the dict iterates them.  The get_relative_path
\* of write() rewrites the directory prefixes of path, and the texts dumped
\* here hold none.
save_json_text(f, its) == write(f, json_dumps(SortItems(its)))

\* the fields-maps given to save_json, and the orders of their items
JValues == SeqsUpTo(Tokens, MaxValueLen)
JMaps == UNION {[K -> JValues] : K \in SUBSET JKeys}
ItemsOf(m) ==
    {its \in SeqsOfLen({<<k, m[k]>> : k \in DOMAIN m}, Cardinality(DOMAIN m)) :
        \A x, y \in 1..Len(its) : its[x] = its[y] => x = y}

\* the texts a data file may hold: any text of at most MaxText tokens
Texts == SeqsUpTo(JTokens, MaxText)

JsonInit ==
    /\ fs \in {[path |-> f, tmp |-> NoFile, bak |-> NoFile, dirname |-> TRUE] :
                 f \in {NoFile} \cup {File(t) : t \in Texts}}
    /\ pc = "idle" /\ data = <<>> /\ prev = NoFile
    /\ op = "none" /\ rd = <<>> /\ crashPc = "none"
    /\ TreeIdle /\ CrawlIdle /\ LibIdle /\ CallIdle

\* read_json(path); after a save_json the call is recorded as "save_read"
CallReadJson ==
    /\ fn \in {"none", "save_json"}
    /\ fn' = IF fn = "none" THEN "read_json" ELSE "save_read"
    /\ ret' = read_json_text(fs.path)
    /\ UNCHANGED <<storeVars, treeVars, runVars, crawlVars, libVars, arg>>

\* save_json(path, m), the dict m iterating as its
CallSaveJson(m, its) ==
    /\ fn = "none"
    /\ fn' = "save_json"
    /\ arg' = m
    /\ fs' = save_json_text(fs, its).fs
    /\ UNCHANGED <<pc, data, prev, op, rd, crashPc, treeVars, runVars, crawlVars,
                   libVars, ret>>

JsonNext ==
    \/ CallReadJson
    \/ \E m \in JMaps : \E its \in ItemsOf(m) : CallSaveJson(m, its)

JsonSpec == JsonInit /\ [][JsonNext]_vars

\* read_json of an absent or empty data file is the empty object, and of a
\* file holding an object that object (with its path fragments rewritten)
C19_WellFormed ==
    fn = "read_json" =>
        /\ (~fs.path.exists \/ fs.path.content = <<>>) =>
              ret = Loaded(EmptyMap)
        /\ ~json_loads(fs.path.content).raised => ~ret.raised

\* C19: read_json returns a document for every state of the data file and
\* never raises; an absent, an empty and a malformed file give {}.
C19_ReadJsonTotal ==
    fn = "read_json" =>
        /\ ~ret.raised
        /\ (~fs.path.exists \/ json_loads(fs.path.content).raised) =>
              ret.value = EmptyMap

\* whatever the order in which the dict gives its items, save_json writes
\* the text with the keys in their order
C20_OrderIndependent ==
    fn = "save_json" =>
        \A its \in ItemsOf(arg) :
            fs.path = File(json_dumps(SortItems(its)))

\* a fields-map whose values hold no path fragment is read back as saved
C20_PlainRoundTrip ==
    (fn = "save_read" /\ \A k \in DOMAIN arg :
                            \A i \in 1..Len(arg[k]) : arg[k][i] # "../") =>
        ret = Loaded(arg)

\* C20: read_json after save_json(p, M) returns exactly the pairs of M, also
\* when a value holds a path fragment such as '../', and the text saved does
\* not depend on the order in which the pairs were inserted.
C20_RoundTrip ==
    /\ fn = "save_read" => ret = Loaded(arg)
    /\ C20_OrderIndependent

(***************************************************************************)
(* a filter on a falsy value                                               *)
(***************************************************************************)
\* the value the filter t looks up in fields is missing or empty
FalsyLookup(fields, t) ==
    LET iv == ItemValue(fields, t[1]) IN ~iv.has \/ iv.val = <<>>

\* C22: a filter whose looked-up value is missing or empty is false under
\* every condition, 'not' and 'not_contains' included: a query all of whose
\* filters are such is not matched, and an 'and' query holding one such
\* filter is not matched.
C22_FalsyValue ==
    fn = "match" =>
        \A i \in 1..Len(arg.queries) :
            LET q == arg.queries[i]
                falsy == {j \in 1..Len(q.filters) :
                             FalsyLookup(arg.fields, q.filters[j])}
            IN  (/\ falsy # {}
                 /\ (q.operator = "and" \/ falsy = 1..Len(q.filters)))
                => ret = FALSE

\* C22 witness: an item without a name is rejected by and[(name not aB)]
C22_Witness ==
    /\ fn = "match"
    /\ arg.fields = [f \in {} |-> <<>>]
    /\ arg.queries = <<[operator |-> "and",
                        filters |-> << <<"name", "not", <<"a", "B">> >> >>]>>
    /\ ret = FALSE

(***************************************************************************)
(* items without the sort field                                            *)
(***************************************************************************)
\* in ret no item that lacks the field f stands before one that has it
MissingLast(f) ==
    \A i, j \in 1..Len(ret) :
        (i < j /\ f \notin DOMAIN ret[i].data) => f \notin DOMAIN ret[j].data

\* under a descending token the items without the field are at the bottom
C23_MissingLastDesc ==
    (fn = "sorted" /\ arg.sort_by # <<>> /\ ReverseOf(arg.sort_by[1])) =>
        MissingLast(FieldOf(arg.sort_by[1]))

\* C23: in sorted(items, sort_by) the items that lack the field of the
\* first (dominant) token come after all the items that have a value for
\* it, under an ascending and under a descending token.
C23_MissingLast ==
    (fn = "sorted" /\ arg.sort_by # <<>>) =>
        MissingLast(FieldOf(arg.sort_by[1]))

(***************************************************************************)
(* Library.find_items (library.py:826-851) on the items create_items       *)
(* returned: the results and the fields it leaves in self._fields.  No     *)
(* global query is registered and no sort_by is set.                       *)
(***************************************************************************)
\* (mutant of FindFields: only the items that match contribute)
FindFields_Matched(items, queries) ==
    UNION {DOMAIN items[i].data :
              i \in {j \in 1..Len(items) : match(items[j].data, queries)}}

\* library.py:844-846: fields.extend(item.item_data().keys()) for every
\* item; self._fields = list(set(fields))
FindFields(items, queries) ==
    UNION {DOMAIN items[i].data : i \in 1..Len(items)}

\* library.py:840-843: the items that match, in the order of the items
FindResults(items, queries) ==
    LET Matching(it) == match(it.data, queries)
    IN SelectSeq(items, Matching)

\* item datas with the fields name and tag, each present or not
FindDatas ==
    {[f \in {} |-> <<>>], [name |-> <<"A", "b">>], [name |-> <<"b">>],
     [tag |-> <<"b">>], [name |-> <<"A", "b">>, tag |-> <<"b">>]}

FindLists ==
    {[i \in 1..Len(ds) |-> [id |-> i, data |-> ds[i]]] :
        ds \in SeqsUpTo(FindDatas, MaxItems)}

FindQueries ==
    {<<>>} \cup
    {<<[operator |-> o, filters |-> <<t>>]>> :
        o \in {"and", "or"},
        t \in {<<"name", "is", <<"a", "B">> >>,
               <<"name", "not", <<"a", "B">> >>,
               <<"tag", "contains", <<"b">> >>}}

FindInit ==
    /\ StoreIdle /\ TreeIdle /\ CrawlIdle /\ LibIdle
    /\ fn = "none"
    /\ arg \in {[items |-> its, queries |-> qs] :
                  its \in FindLists, qs \in FindQueries}
    /\ ret = <<>>

CallFindItems ==
    /\ fn = "none"
    /\ fn' = "find_items"
    /\ ret' = [results |-> FindResults(arg.items, arg.queries),
               fields |-> FindFields(arg.items, arg.queries)]
    /\ UNCHANGED <<storeVars, treeVars, runVars, crawlVars, libVars, arg>>

FindNext == CallFindItems

FindSpec == FindInit /\ [][FindNext]_vars

\* the field names of the items of a list
FieldNames(items) == UNION {DOMAIN items[i].data : i \in 1..Len(items)}

\* C21 as stated: after find_items(queries), fields() is the set of the field
\* names of the items that matched, the results.
C21_FieldsOfMatched ==
    fn = "find_items" => ret.fields = FieldNames(ret.results)

\* C21 as amended: after find_items(queries), fields() is the set of the
\* field names of all the items of the library that find_items evaluated,
\* matched or not.
C21_FieldsOfAll ==
    fn = "find_items" =>
        /\ ret.fields = FieldNames(arg.items)
        /\ FieldNames(ret.results) \subseteq ret.fields

\* C21 witness: an item with a tag does not match, and tag is a field
C21_Witness ==
    /\ fn = "find_items"
    /\ Len(ret.results) = 1
    /\ Len(arg.items) = 2
    /\ "tag" \in ret.fields
    /\ "tag" \notin FieldNames(ret.results)

(***************************************************************************)
(* LibraryManager: register_item, registered_items, item_from_path         *)
(* (manager.py:33-83, the same text in core/library.py:307-357), with the  *)
(* item classes of widgets/library/items.py.  A path and an extension are  *)
(* sequences of tokens; a class is [name, RegisterOrder, Extensions].      *)
(***************************************************************************)
MaxPathLen == 3

PathTokens == {"d/", "ign", ".x", ".y"}
RegPaths == SeqsUpTo(PathTokens, MaxPathLen) \ {<<>>}

ItemClasses ==
    {[name |-> n, RegisterOrder |-> o, Extensions |-> e] :
        n \in {"A", "B"}, o \in {1, 2},
        e \in {<<>>, << <<".x">> >>, << <<".y">> >>,
               << <<"d/", ".x">>, <<".y">> >>}}

\* str.endswith
EndsWith(path, ext) ==
    /\ Len(ext) <= Len(path)
    /\ SubSeq(path, Len(path) - Len(ext) + 1, Len(path)) = ext

\* `ignore in path`: ignore is a substring of path
Within(ignore, path) ==
    \E i \in 0..(Len(path) - Len(ignore)) :
        SubSeq(path, i + 1, i + Len(ignore)) = ignore

\* items.py:200-212: LibraryItem.match, for the class c
ClassMatch(c, path) ==
    \E i \in 1..Len(c.Extensions) : EndsWith(path, c.Extensions[i])

\* manager.py:33-39: self._item_classes[cls.__name__] = cls on the
\* OrderedDict: a name already present keeps its place and gets the new class
RegisterInto(classes, c) ==
    IF \E i \in 1..Len(classes) : classes[i].name = c.name
    THEN [i \in 1..Len(classes) |->
             IF classes[i].name = c.name THEN c ELSE classes[i]]
    ELSE Append(classes, c)

\* sorted(values, key=RegisterOrder): stable
RECURSIVE SortByOrder(_)
SortByOrder(classes) ==
    IF classes = <<>> THEN <<>>
    ELSE LET i == CHOOSE x \in 1..Len(classes) :
                     /\ \A y \in 1..Len(classes) :
                           classes[y].RegisterOrder >= classes[x].RegisterOrder
                     /\ \A y \in 1..(x - 1) :
                           classes[y].RegisterOrder > classes[x].RegisterOrder
         IN <<classes[i]>> \o
            SortByOrder([j \in 1..(Len(classes) - 1) |->
                            IF j < i THEN classes[j] ELSE classes[j + 1]])

\* (mutant of registered_items: the classes in the order of registration)
registered_items_Unsorted == _item_classes

\* manager.py:41-50
registered_items == SortByOrder(_item_classes)

\* manager.py:68-83: the name of the class of the item returned, "None" when
\* the function returns None
item_from_path(path) ==
    LET rs == registered_items
        hits == {i \in 1..Len(rs) : ClassMatch(rs[i], path)}
    IN  IF \E i \in 1..Len(ignore_paths) : Within(ignore_paths[i], path)
        THEN "None"
        ELSE IF hits = {} THEN "None"
        ELSE rs[CHOOSE i \in hits : \A j \in hits : i <= j].name

RegInit ==
    /\ StoreIdle /\ CrawlIdle /\ LibIdle /\ CallIdle
    /\ kind = [n \in Nodes |-> "absent"]
    /\ cls = [n \in Nodes |-> "none"]
    /\ _item_classes = <<>>
    /\ ignore_paths \in {<<>>, << <<"ign">> >>}
    /\ RunIdle

CallRegisterItem(c) ==
    /\ _item_classes' = RegisterInto(_item_classes, c)
    /\ fn' = "register_item"
    /\ arg' = c
    /\ ret' = "None"
    /\ UNCHANGED <<storeVars, crawlVars, libVars, kind, cls, ignore_paths,
                   runVars>>

CallItemFromPath(path) ==
    /\ fn' = "item_from_path"
    /\ arg' = path
    /\ ret' = item_from_path(path)
    /\ UNCHANGED <<storeVars, crawlVars, libVars, treeVars, runVars>>

RegNext ==
    \/ \E c \in ItemClasses : CallRegisterItem(c)
    \/ \E path \in RegPaths : CallItemFromPath(path)

RegSpec == RegInit /\ [][RegNext]_vars

\* the classes of the registry that match the path
MatchingClasses(path) ==
    {_item_classes[i] : i \in {j \in 1..Len(_item_classes) :
                                  ClassMatch(_item_classes[j], path)}}

Ignored(path) ==
    \E i \in 1..Len(ignore_paths) : Within(ignore_paths[i], path)

\* C24: the registry holds one class per name, the one registered last
\* under it; item_from_path gives None for a path holding an ignored
\* substring, otherwise an item of a matching class before which no matching
\* class comes in RegisterOrder, and None when no class matches.
C24_ResolvePriority ==
    /\ \A i, j \in 1..Len(_item_classes) :
          _item_classes[i].name = _item_classes[j].name => i = j
    /\ fn = "register_item" =>
          \E i \in 1..Len(_item_classes) : _item_classes[i] = arg
    /\ fn = "item_from_path" =>
          IF Ignored(arg) \/ MatchingClasses(arg) = {} THEN ret = "None"
          ELSE \E c \in MatchingClasses(arg) :
                  /\ ret = c.name
                  /\ \A e \in MatchingClasses(arg) :
                        c.RegisterOrder <= e.RegisterOrder

\* C24 witness: B was registered before A and A has the smaller
\* RegisterOrder; both match and the item is an A
C24_Witness ==
    /\ fn = "item_from_path"
    /\ Len(_item_classes) = 2
    /\ _item_classes[1].name = "B"
    /\ _item_classes[1].RegisterOrder > _item_classes[2].RegisterOrder
    /\ Cardinality(MatchingClasses(arg)) = 2
    /\ ~Ignored(arg)
    /\ ret = "A"

(***************************************************************************)
(* Library.sync (library.py:953-985) statement by statement, with the      *)
(* events it produces in run.log.  The local `data` of sync is the dict    *)
(* held in self._data, so the document being changed is _data; `items` is  *)
(* crawled.  An event is [ev, i, n, doc]: i/n is the fraction given to     *)
(* percent_callback, doc the document handed to post_sync and to save.     *)
(***************************************************************************)
Event(e, k, n, doc) == [ev |-> e, i |-> k, n |-> n, doc |-> doc]

Logged(e, k, n, doc) == [run EXCEPT !.log = Append(run.log, Event(e, k, n, doc))]

\* (mutant of AfterMerge: the loop over the items is left after the first)
AfterMerge_Break(k, count) == "post_sync"

\* library.py:970: for i, item in enumerate(items): the position after the
\* body has run for the k-th item
AfterMerge(k, count) == IF k >= count THEN "post_sync" ELSE "progress"

\* 953-960: sync() is called on a library with a root
SyncCall ==
    /\ run.pc \in {"idle", "done", "raised"}
    /\ _path # NoPath
    /\ run' = [pc |-> "read", i |-> 0, log |-> <<>>]
    /\ lop' = "sync_running"
    /\ UNCHANGED <<storeVars, treeVars, other, callVars, crawlVars, _mtime,
                   _data, _items, fmtime, now, reloaded, pre, crawled, _path,
                   _results, _search_enabled>>

\* 962: data = self.read()
SyncRead ==
    /\ run.pc = "read"
    /\ _data' = ReadData
    /\ _mtime' = ReadMtime
    /\ reloaded' = is_dirty
    /\ pre' = ReadData
    /\ run' = [Logged("read", 0, 0, EmptyDoc) EXCEPT !.pc = "prune"]
    /\ UNCHANGED <<storeVars, treeVars, other, callVars, crawlVars, _items,
                   fmtime, now, lop, crawled, _path, _results,
                   _search_enabled>>

\* 964-966: the keys whose path does not exist are deleted
SyncPrune ==
    /\ run.pc = "prune"
    /\ _data' = Prune(_data)
    /\ run' = [Logged("prune", 0, 0, EmptyDoc) EXCEPT !.pc = "crawl"]
    /\ UNCHANGED <<storeVars, treeVars, other, callVars, crawlVars, _mtime,
                   _items, fmtime, now, lop, reloaded, pre, crawled, _path,
                   _results, _search_enabled>>

\* 968-970: items = list(manager.find_items(path, depth)); count = len(items)
SyncCrawl ==
    LET w == find_items(DEFAULT_RECURSIVE_DEPTH) IN
    /\ run.pc = "crawl"
    /\ IF w.pc = "raised"
       THEN /\ run' = [run EXCEPT !.pc = "raised"]
            /\ lop' = "sync_crawl_raised"
            /\ UNCHANGED crawled
       ELSE /\ run' = [Logged("crawl", 0, Len(w.out), EmptyDoc) EXCEPT
                          !.pc = AfterMerge(0, Len(w.out)), !.i = 1]
            /\ crawled' = w.out
            /\ UNCHANGED lop
    /\ UNCHANGED <<storeVars, treeVars, other, callVars, crawlVars, _mtime,
                   _data, _items, fmtime, now, reloaded, pre, _path,
                   _results, _search_enabled>>

\* 971-972: percent = float(i+1)/float(count); percent_callback('', percent)
SyncProgress ==
    /\ run.pc = "progress"
    /\ run' = [Logged("progress", run.i, Len(crawled), EmptyDoc) EXCEPT
                  !.pc = "merge"]
    /\ UNCHANGED <<storeVars, treeVars, other, callVars, crawlVars, libVars>>

\* 973-976: the item's data is merged into data[path]
SyncMerge ==
    /\ run.pc = "merge"
    /\ _data' = MergeItem(_data, crawled[run.i])
    /\ run' = [Logged("merge", run.i, Len(crawled), EmptyDoc) EXCEPT
                  !.pc = AfterMerge(run.i, Len(crawled)), !.i = run.i + 1]
    /\ UNCHANGED <<storeVars, treeVars, other, callVars, crawlVars, _mtime,
                   _items, fmtime, now, lop, reloaded, pre, crawled, _path,
                   _results, _search_enabled>>

\* 978-979, 987-993: percent_callback('Post Sync', -1); self.post_sync(data),
\* which does nothing
SyncPostSync ==
    /\ run.pc = "post_sync"
    /\ run' = [Logged("post_sync", 0, 0, _data) EXCEPT !.pc = "save"]
    /\ UNCHANGED <<storeVars, treeVars, other, callVars, crawlVars, libVars>>

\* 981-982: percent_callback('Saving Cache', -1); self.save(data)
SyncSave ==
    \E o \in Orders(_data) :
    LET r == save_json(fs, _data, o) IN
    /\ run.pc = "save"
    /\ fs' = r.fs
    /\ IF r.raised
       THEN /\ run' = [Logged("save", 0, 0, _data) EXCEPT !.pc = "raised"]
            /\ lop' = "sync_save_raised"
            /\ UNCHANGED <<_mtime, fmtime>>
       ELSE /\ run' = [Logged("save", 0, 0, _data) EXCEPT !.pc = "emit"]
            /\ _mtime' = set_dirty(TRUE)
            /\ fmtime' = now
            /\ UNCHANGED lop
    /\ UNCHANGED <<pc, data, prev, op, rd, crashPc, treeVars, other,
                   callVars, crawlVars, _data, _items, now, reloaded, pre,
                   crawled, _path, _results, _search_enabled>>

\* 984: self.dataChanged.emit(); sync returns
SyncEmit ==
    /\ run.pc = "emit"
    /\ run' = [Logged("dataChanged", 0, 0, EmptyDoc) EXCEPT !.pc = "done"]
    /\ lop' = "sync"
    /\ UNCHANGED <<storeVars, treeVars, other, callVars, crawlVars, _mtime,
                   _data, _items, fmtime, now, reloaded, pre, crawled, _path,
                   _results, _search_enabled>>

\* roots with no, one and two item files, and one with an item file beside
\* a directory
StepTrees == LibTrees \cup {TreeOf("file", "flat", "file", "flat"),
                            TreeOf("file", "nested", "file", "flat")}

StepInit ==
    /\ fs \in DataFiles(LibDocs)
    /\ pc = "idle" /\ data = <<>> /\ prev = NoFile
    /\ op = "none" /\ rd = <<>> /\ crashPc = "none"
    /\ \E t \in StepTrees : kind = t.kind /\ cls = t.cls
    /\ RegIdle
    /\ RunIdle
    /\ depth = 1
    /\ mgr \in {"widgets", "core"}
    /\ walk = WalkIdle
    /\ NewLibrary
    /\ _path = "root"
    /\ CallIdle

StepNext ==
    \/ SyncCall
    \/ SyncRead
    \/ SyncPrune
    \/ SyncCrawl
    \/ SyncProgress
    \/ SyncMerge
    \/ SyncPostSync
    \/ SyncSave
    \/ SyncEmit
    \/ Tick

StepSpec == StepInit /\ [][StepNext]_vars

\* the place of an event in the order of a sync
Rank(e) ==
    CASE e = "read" -> 1
      [] e = "prune" -> 2
      [] e = "crawl" -> 3
      [] e \in {"progress", "merge"} -> 4
      [] e = "post_sync" -> 5
      [] e = "save" -> 6
      [] e = "dataChanged" -> 7

\* the positions of the log that hold the event e
At(e) == {k \in 1..Len(run.log) : run.log[k].ev = e}

C26_CrawlTerminates == <>(walk.pc \in {"done", "raised"})

\* C26 witness: the crawl has ended after going round a cycle: it listed a
\* directory through a link twice in its path
C26_Witness ==
    /\ walk.pc = "done"
    /\ depth >= 2
    /\ \E p \in walk.seen :
          \E a, b \in 1..Len(p) : a < b /\ p[a] = p[b] /\ kind[p[a]] = "link"


(***************************************************************************)
(* The item cache: read, save, sync, add_item, set_dirty and search on one *)
(* library with a root, while another process rewrites the data file.      *)
(***************************************************************************)
CacheInit == ItemInit

CacheNext ==
    \/ LibRead
    \/ \E doc \in LibDocs : LibSave(doc)
    \/ \E value \in BOOLEAN : LibSetDirty(value)
    \/ LibSync
    \/ \E ps \in AddedItems : LibSaveItemData(ps, FALSE)
    \/ LibSearch
    \/ \E doc \in LibDocs : ExternalWrite(doc)
    \/ Tick

CacheSpec == CacheInit /\ [][CacheNext]_vars

\* the items resolved from the keys of the document that is on disk
DiskItems == items_from_paths(SortPaths(DOMAIN read_json(fs.path)))

\* C27: the items that a search evaluates are the items resolved from the
\* keys of the document currently on disk, whatever calls came before it (a
\* read() after a save or an external change included).
C27_CacheCoherent ==
    lop = "search" => _items = DiskItems


\* outcomes of sync() and save_item_data() that left by an exception,
\* before the save or in it
PersistRaised == {"sync_crawl_raised", "sync_save_raised", "add_save_raised"}

\* C28: when sync() or save_item_data() raises before or during its save,
\* the cached document is the one the call started from (the document its
\* read() returned), with no key dropped and no field merged.
C28_CacheUnchanged ==
    lop \in PersistRaised => _data = pre


(***************************************************************************)
(* Two processes in LibraryUtils.write on the same path.  Every            *)
(* os.path.exists test and the call it guards are two steps, so the other  *)
(* process may act between them; a call on a file that is no longer there  *)
(* raises OSError.  The file object of the with block stays bound to the   *)
(* file it opened: `at` is where that file is now, `off` how many tokens   *)
(* the process has written through it.                                     *)
(***************************************************************************)
Writers == {1, 2}

\* what a write through a file object leaves where nothing was written
Hole == "0"

NewWriter == [pc |-> "idle", data |-> <<>>, op |-> "none", at |-> "none",
              off |-> 0, ok |-> FALSE]

\* content c with token t at position i, holes up to it
Put(c, i, t) ==
    [j \in 1..(IF i > Len(c) THEN i ELSE Len(c)) |->
        IF j = i THEN t ELSE IF j <= Len(c) THEN c[j] ELSE Hole]

\* where an open file is after os.rename(from, to); to = "gone" is os.remove
Moved(at, from, to) ==
    IF at = from THEN to ELSE IF at = to THEN "gone" ELSE at

\* the writers after w took a step that renamed or removed a file
Step(w, rec, from, to) ==
    [v \in Writers |->
        LET o == IF v = w THEN rec ELSE other[v]
        IN [o EXCEPT !.at = Moved(o.at, from, to)]]

\* the writers after w took a step that moved no file
Stay(w, rec) == [other EXCEPT ![w] = rec]

\* 222-234: the call up to the lock check
RaceCall(w, d) ==
    /\ other[w].pc = "idle"
    /\ fs' = MakeDirs(fs)
    /\ IF IsLocked(MakeDirs(fs))
       THEN other' = Stay(w, [other[w] EXCEPT !.pc = "done", !.op = "locked",
                                               !.ok = fs.path.exists])
       ELSE other' = Stay(w, [other[w] EXCEPT !.pc = "open_tmp", !.data = d,
                                               !.op = "writing"])
    /\ UNCHANGED <<pc, data, prev, op, rd, crashPc, run, treeVars, callVars,
                   crawlVars, libVars>>

\* 237: open(tmp, 'w') creates the file, or truncates the one that is there
RaceOpenTmp(w) ==
    /\ other[w].pc = "open_tmp"
    /\ fs' = OpenTmp(fs)
    /\ other' = Stay(w, [other[w] EXCEPT !.pc = "write_tmp", !.at = "tmp",
                                          !.off = 0])
    /\ UNCHANGED <<pc, data, prev, op, rd, crashPc, run, treeVars, callVars,
                   crawlVars, libVars>>

\* 238-239: f.write(data); f.flush(): the next token goes to the file the
\* file object is bound to, at the object's own offset; after the last one
\* the with block closes the file
RaceWriteTmp(w) ==
    LET o == other[w]
        t == o.data[o.off + 1]
        last == o.off + 1 = Len(o.data)
    IN
    /\ o.pc = "write_tmp"
    /\ fs' = CASE o.at = "tmp" ->
                    [fs EXCEPT !.tmp.content = Put(@, o.off + 1, t)]
               [] o.at = "path" ->
                    [fs EXCEPT !.path.content = Put(@, o.off + 1, t)]
               [] o.at = "bak" ->
                    [fs EXCEPT !.bak.content = Put(@, o.off + 1, t)]
               [] OTHER -> fs
    /\ other' = Stay(w, [o EXCEPT !.off = @ + 1,
                                  !.pc = IF last THEN "chk_old_bak" ELSE @,
                                  !.at = IF last THEN "none" ELSE @])
    /\ UNCHANGED <<pc, data, prev, op, rd, crashPc, run, treeVars, callVars,
                   crawlVars, libVars>>

\* the os.path.exists tests of 241, 243, 245, 247 and of the handler (250,
\* 252): where the process goes next
AfterCheck(p, f) ==
    CASE p = "chk_old_bak" -> IF f.bak.exists THEN "rm_old_bak" ELSE "chk_path"
      [] p = "chk_path" -> IF f.path.exists THEN "mv_path_bak" ELSE "chk_tmp"
      [] p = "chk_tmp" -> IF f.tmp.exists THEN "mv_tmp_path" ELSE "chk_bak"
      [] p = "chk_bak" -> IF f.path.exists /\ f.bak.exists THEN "rm_bak"
                          ELSE "return"
      [] p = "exc_chk_tmp" -> IF f.tmp.exists THEN "exc_rm_tmp"
                              ELSE "exc_chk_bak"
      [] p = "exc_chk_bak" -> IF ~f.path.exists /\ f.bak.exists
                              THEN "exc_mv_bak" ELSE "reraise"

CheckPcs == {"chk_old_bak", "chk_path", "chk_tmp", "chk_bak", "exc_chk_tmp",
             "exc_chk_bak"}

\* the record of a process that leaves write(): by return, or by the raise
\* of 255 (or by an exception of the handler itself)
Left(o, p, f) ==
    IF p = "return"
    THEN [o EXCEPT !.pc = "done", !.op = "written", !.ok = f.path.exists]
    ELSE IF p = "reraise"
    THEN [o EXCEPT !.pc = "done", !.op = "raised", !.ok = f.path.exists]
    ELSE [o EXCEPT !.pc = p]

RaceCheck(w) ==
    /\ other[w].pc \in CheckPcs
    /\ other' = Stay(w, Left(other[w], AfterCheck(other[w].pc, fs), fs))
    /\ UNCHANGED <<fs, pc, data, prev, op, rd, crashPc, run, treeVars,
                   callVars, crawlVars, libVars>>

\* 242: os.remove(bak)
RaceRemoveOldBak(w) ==
    /\ other[w].pc = "rm_old_bak"
    /\ IF fs.bak.exists
       THEN /\ fs' = RemoveOldBak(fs)
            /\ other' = Step(w, [other[w] EXCEPT !.pc = "chk_path"],
                             "bak", "gone")
       ELSE /\ other' = Stay(w, [other[w] EXCEPT !.pc = "exc_chk_tmp"])
            /\ UNCHANGED fs
    /\ UNCHANGED <<pc, data, prev, op, rd, crashPc, run, treeVars, callVars,
                   crawlVars, libVars>>

\* 244: os.rename(path, bak)
RaceRenamePathToBak(w) ==
    /\ other[w].pc = "mv_path_bak"
    /\ IF fs.path.exists
       THEN /\ fs' = RenamePathToBak(fs)
            /\ other' = Step(w, [other[w] EXCEPT !.pc = "chk_tmp"],
                             "path", "bak")
       ELSE /\ other' = Stay(w, [other[w] EXCEPT !.pc = "exc_chk_tmp"])
            /\ UNCHANGED fs
    /\ UNCHANGED <<pc, data, prev, op, rd, crashPc, run, treeVars, callVars,
                   crawlVars, libVars>>

\* 246: os.rename(tmp, path)
RaceRenameTmpToPath(w) ==
    /\ other[w].pc = "mv_tmp_path"
    /\ IF fs.tmp.exists
       THEN /\ fs' = RenameTmpToPath(fs)
            /\ other' = Step(w, [other[w] EXCEPT !.pc = "chk_bak"],
                             "tmp", "path")
       ELSE /\ other' = Stay(w, [other[w] EXCEPT !.pc = "exc_chk_tmp"])
            /\ UNCHANGED fs
    /\ UNCHANGED <<pc, data, prev, op, rd, crashPc, run, treeVars, callVars,
                   crawlVars, libVars>>

\* 248: os.remove(bak), the last statement of the body: write() returns
RaceRemoveBak(w) ==
    /\ other[w].pc = "rm_bak"
    /\ IF fs.bak.exists
       THEN /\ fs' = [fs EXCEPT !.bak = NoFile]
            /\ other' = Step(w, Left(other[w], "return", fs), "bak", "gone")
       ELSE /\ other' = Stay(w, [other[w] EXCEPT !.pc = "exc_chk_tmp"])
            /\ UNCHANGED fs
    /\ UNCHANGED <<pc, data, prev, op, rd, crashPc, run, treeVars, callVars,
                   crawlVars, libVars>>

\* 251: os.remove(tmp) in the handler; an OSError here leaves write()
RaceExceptRemoveTmp(w) ==
    /\ other[w].pc = "exc_rm_tmp"
    /\ IF fs.tmp.exists
       THEN /\ fs' = ExceptRemoveTmp(fs)
            /\ other' = Step(w, [other[w] EXCEPT !.pc = "exc_chk_bak"],
                             "tmp", "gone")
       ELSE /\ other' = Stay(w, Left(other[w], "reraise", fs))
            /\ UNCHANGED fs
    /\ UNCHANGED <<pc, data, prev, op, rd, crashPc, run, treeVars, callVars,
                   crawlVars, libVars>>

\* 253-255: os.rename(bak, path) in the handler, then raise
RaceExceptRestoreBak(w) ==
    LET f == IF fs.bak.exists
             THEN [fs EXCEPT !.path = fs.bak, !.bak = NoFile] ELSE fs
    IN
    /\ other[w].pc = "exc_mv_bak"
    /\ fs' = f
    /\ other' = IF fs.bak.exists
                THEN Step(w, Left(other[w], "reraise", f), "bak", "path")
                ELSE Stay(w, Left(other[w], "reraise", f))
    /\ UNCHANGED <<pc, data, prev, op, rd, crashPc, run, treeVars, callVars,
                   crawlVars, libVars>>

RaceInit ==
    /\ StoreInit
    /\ fs.dirname
    /\ kind = [n \in Nodes |-> "absent"]
    /\ cls = [n \in Nodes |-> "none"]
    /\ RegIdle
    /\ CrawlIdle /\ LibIdle /\ CallIdle
    /\ run = SyncIdle
    /\ other = [w \in Writers |-> NewWriter]

RaceNext ==
    \E w \in Writers :
        \/ \E d \in Contents : RaceCall(w, d)
        \/ RaceOpenTmp(w)
        \/ RaceWriteTmp(w)
        \/ RaceCheck(w)
        \/ RaceRemoveOldBak(w)
        \/ RaceRenamePathToBak(w)
        \/ RaceRenameTmpToPath(w)
        \/ RaceRemoveBak(w)
        \/ RaceExceptRemoveTmp(w)
        \/ RaceExceptRestoreBak(w)

RaceSpec == RaceInit /\ [][RaceNext]_vars

\* both calls have left write()
BothDone == \A w \in Writers : other[w].pc = "done"

\* C29: whatever the interleaving of the two calls, a call that returns
\* leaves the canonical path existing, and when both have finished the path
\* holds the complete content given to one of them, with no .tmp and no .bak.
C29_TwoWriters ==
    /\ \A w \in Writers : other[w].op = "written" => other[w].ok
    /\ BothDone =>
          /\ fs.path.exists
          /\ \E w \in Writers : other[w].op # "locked"
                                /\ fs.path.content = other[w].data
          /\ ~fs.tmp.exists
          /\ ~fs.bak.exists


(***************************************************************************)
(* a .tmp left behind by an interrupted write                              *)
(***************************************************************************)
\* the operations of the library that write the data file
Persisting ==
    \/ \E doc \in LibDocs : LibSave(doc)
    \/ LibSync
    \/ \E ps \in AddedItems : LibSaveItemData(ps, FALSE)

\* ... and those that only read it
Reading ==
    \/ LibRead
    \/ \E value \in BOOLEAN : LibSetDirty(value)
    \/ LibSearch

\* the outcomes in which the locked error of write() reached the caller
LockedError == {"save_raised", "sync_save_raised", "add_save_raised"}

\* no operation of the library touches the files while the .tmp exists, and
\* every operation that writes leaves by an exception: the locked error, or
\* for sync() the exception of its crawl
C30_LockStays ==
    [][/\ (fs.tmp.exists /\ (Persisting \/ Reading)) => fs' = fs
       /\ (fs.tmp.exists /\ Persisting) =>
              lop' \in LockedError \cup {"sync_crawl_raised"}]_vars

\* C30: an operation that starts while path.tmp exists does not remove it
\* and does not change the persisted document, and every save, sync and
\* add_item started then raises the locked error.
C30_LockPermanent ==
    [][/\ (fs.tmp.exists /\ (Persisting \/ Reading)) =>
              fs'.tmp = fs.tmp /\ fs'.path = fs.path
       /\ (fs.tmp.exists /\ Persisting) => lop' \in LockedError]_vars

=============================================================================
